---------------------------- MODULE Spec2Model ----------------------------
(***************************************************************************)
(* Catalog-build pipeline of the 3D model gallery:                         *)
(*   scripts/extract-model-data.js  (crawl, two-pass config resolution,    *)
(*                                   stable ids, image resolution)         *)
(*   scripts/build-nextjs-app.js    (incremental cache, image              *)
(*                                   materialization)                      *)
(* Strings that the code inspects textually (paths, names, ids, image      *)
(* values) are sequences of one-character strings; attribute keys, values  *)
(* and tags, which the code only compares for equality, are TLA+ strings.  *)
(***************************************************************************)
EXTENDS Integers, Sequences, FiniteSets, TLC

VARIABLES
    root,            \* ORYNT3D_DIRECTORY: the scan root, an absolute path
    cfgFirst,        \* readdir order: TRUE when a directory lists its config file before its subdirectories
    tree,            \* source tree: directory (sequence of segments below the root) -> content of its config.orynt3d
    files,           \* source tree: directory -> the other file names of the directory, in readdir order
    dataFile,        \* public/orynt3d-data.json: <<>> when the file does not exist, else <<catalog>>
    now,             \* the wall clock read by new Date()
    pc,              \* position of the running script: "idle" when none runs
    configFiles,     \* extract: result of the crawl
    idx,             \* extract: loop index i of the running pass (0-based, as in the code)
    releaseConfigs,  \* extract: the Map of release configs, in insertion order
    existingModels,  \* extract: the Map id -> image loaded from the prior catalog
    models,          \* extract: the models array under construction
    errorCount,      \* extract: errorCount of processModelConfigs
    applied,         \* extract: for each model built, the release config files findApplicableReleaseConfigs returned
    runsLeft,        \* script runs that may still be started in this behaviour
    prior,           \* the data file as the running (or last) extraction found it
    rootExists,      \* fs.existsSync(ORYNT3D_DIRECTORY)
    unreadable,      \* the directories of the tree whose fs.readdirSync throws
    exitCode,        \* exit code of the last script that ended
    issued,          \* history: every id an extraction run has given, with the name and relative path it was given to
    trail,           \* history: the script runs that ended, each with the data file it left
    cacheFile,       \* .build-cache.json: <<>> when the file does not exist, else <<cache>>
    publicImages,    \* public/images: the file names it holds
    nextConfig,      \* next.config.js: <<>> while it holds the placeholder, else <<embedded data>>
    data,            \* build: the catalog in memory
    buildCache,      \* build: the cache in memory
    newModels,       \* build: newModels, as positions in data.models (the array holds the same objects)
    bidx,            \* build: loop index i of processModelImages
    copiedCount      \* build: copiedCount of processModelImages

\* the source tree and where the scan looks for it
srcVars == <<root, cfgFirst, tree, files, rootExists, unreadable>>

\* the memory of a running extraction
extractVars == <<configFiles, idx, releaseConfigs, existingModels, models,
                 errorCount, applied, prior>>

\* the files and the memory of the build script
buildVars == <<cacheFile, publicImages, nextConfig, data, buildCache, newModels, bidx,
               copiedCount>>

vars == <<root, cfgFirst, tree, files, dataFile, now, pc, configFiles, idx,
          releaseConfigs, existingModels, models, errorCount, applied, runsLeft,
          prior, rootExists, unreadable, exitCode, issued, trail, buildVars>>

---------------------------------------------------------------------------
(* Bounds *)

MaxConfigs == 3      \* config.orynt3d files in the source tree
MaxRuns == 2         \* runs of the extraction, and of the whole pipeline, in one behaviour

---------------------------------------------------------------------------
(* Strings *)

Sep == "/"

S_config == <<"c","o","n","f","i","g",".","o","r","y","n","t","3","d">>
CONFIG_FILENAME == S_config

StartsWith(s, p) ==
    /\ Len(p) <= Len(s)
    /\ SubSeq(s, 1, Len(p)) = p

\* String.prototype.toLowerCase on the characters of the model's alphabet
LowerChar(c) ==
    CASE c = "A" -> "a"
      [] c = "B" -> "b"
      [] OTHER -> c

ToLowerCase(s) == [i \in 1..Len(s) |-> LowerChar(s[i])]

LowerAlnum == {"a","b","c","d","e","f","g","h","i","j","k","l","m","n","o","p","q",
               "r","s","t","u","v","w","x","y","z","0","1","2","3","4","5","6","7","8","9"}

\* str.toLowerCase().replace(/[^a-z0-9]/g, '-')
NormalizeSlug(s) ==
    [i \in 1..Len(s) |-> IF LowerChar(s[i]) \in LowerAlnum THEN LowerChar(s[i]) ELSE "-"]

\* String.prototype.trim() !== '' for a segment: some character is not a blank
NonBlank(s) == \E i \in 1..Len(s) : s[i] # " "

---------------------------------------------------------------------------
(* path module (POSIX flavour; path.sep is Sep) *)

\* index of the last separator at position >= from, 0 when there is none
LastSepFrom(p, from) ==
    LET I == {i \in from..Len(p) : p[i] = Sep}
    IN  IF I = {} THEN 0 ELSE CHOOSE i \in I : \A j \in I : j <= i

\* path.join(dir, name) for a normalized dir and a single file name
PathJoin(dir, name) ==
    IF dir[Len(dir)] = Sep THEN dir \o name ELSE dir \o <<Sep>> \o name

\* path.dirname(p) for a normalized path without trailing separator
PathDirname(p) ==
    LET hasRoot == Len(p) > 0 /\ p[1] = Sep
        end == LastSepFrom(p, 2)
    IN  IF end = 0 THEN (IF hasRoot THEN <<Sep>> ELSE <<".">>)
        ELSE SubSeq(p, 1, end - 1)

\* path.basename(p)
PathBasename(p) == SubSeq(p, LastSepFrom(p, 1) + 1, Len(p))

\* path.relative(from, to) for a path `to` strictly below the directory `from`
PathRelative(from, to) ==
    IF from[Len(from)] = Sep THEN SubSeq(to, Len(from) + 1, Len(to))
    ELSE SubSeq(to, Len(from) + 2, Len(to))

\* str.split(path.sep)
RECURSIVE SplitSep(_)
SplitSep(s) ==
    LET I == {i \in 1..Len(s) : s[i] = Sep}
    IN  IF I = {} THEN <<s>>
        ELSE LET k == CHOOSE i \in I : \A j \in I : i <= j
             IN  <<SubSeq(s, 1, k - 1)>> \o SplitSep(SubSeq(s, k + 1, Len(s)))

---------------------------------------------------------------------------
(* JavaScript values *)

JNull == [t |-> "null"]
JUndefined == [t |-> "undefined"]
JStr(s) == [t |-> "str", s |-> s]
JTrue == [t |-> "bool", b |-> TRUE]

\* the value is truthy: a non-empty string or true
Truthy(v) == (v.t = "str" /\ v.s # <<>>) \/ (v.t = "bool" /\ v.b)

\* an optional field of an object: <<>> when absent, <<v>> when present
Absent == <<>>
Present(v) == <<v>>

---------------------------------------------------------------------------
(* The source tree *)

SegB == <<"b">>
SegBB == <<"b","-","b">>

\* the directories of the tree, each the sequence of its segments below the
\* root, in the order a parent lists them
DirList == << <<>>, <<SegB>>, <<SegB, SegB>>, <<SegBB>> >>
Dirs == {DirList[i] : i \in 1..Len(DirList)}

IsChild(d, c) == Len(c) = Len(d) + 1 /\ SubSeq(c, 1, Len(d)) = d

\* a directory is the other one or below it, compared segment by segment
SegPrefix(anc, d) == Len(anc) <= Len(d) /\ SubSeq(d, 1, Len(anc)) = anc

RECURSIVE AbsDir(_, _)
AbsDir(rt, d) ==
    IF d = <<>> THEN rt
    ELSE PathJoin(AbsDir(rt, SubSeq(d, 1, Len(d) - 1)), d[Len(d)])

ConfigPath(rt, d) == PathJoin(AbsDir(rt, d), CONFIG_FILENAME)

\* content of a config.orynt3d
NoFile == [t |-> "none"]
\* a directory entry named config.orynt3d that is no regular file (a symbolic link)
NotRegular == [t |-> "link"]
BadJson == [t |-> "bad"]
IsDoc(c) == c.t = "doc"

\* the directory of the tree whose config file has this path
DirOfConfig(path) == CHOOSE d \in Dirs : ConfigPath(root, d) = path

\* fs.readFileSync(filePath) of a discovered config file
ReadConfig(path) == tree[DirOfConfig(path)]

---------------------------------------------------------------------------
(* Directory crawler *)

RECURSIVE ConcatAll(_)
ConcatAll(ss) == IF ss = <<>> THEN <<>> ELSE Head(ss) \o ConcatAll(Tail(ss))

ChildSeq(d) == SelectSeq(DirList, LAMBDA c : IsChild(d, c))

\* a crawl that gives up the whole listing of a directory when one of its
\* sub-directories cannot be read
RECURSIVE findOrynt3dConfigFilesRecursively_AllOrNothing(_)
findOrynt3dConfigFilesRecursively_AllOrNothing(d) ==
    LET own == IF tree[d].t \in {"none", "link"} THEN <<>> ELSE <<ConfigPath(root, d)>>
        kids == ChildSeq(d)
        subs == ConcatAll([i \in 1..Len(kids) |->
                              findOrynt3dConfigFilesRecursively_AllOrNothing(kids[i])])
    IN  IF d \in unreadable \/ \E i \in 1..Len(kids) : kids[i] \in unreadable THEN <<>>
        ELSE IF cfgFirst THEN own \o subs ELSE subs \o own

\* readdirSync throws for an unreadable directory before any entry is seen:
\* the catch logs it and the call returns the empty results
RECURSIVE findOrynt3dConfigFilesRecursively(_)
findOrynt3dConfigFilesRecursively(d) ==
    LET own == IF tree[d].t \in {"none", "link"} THEN <<>> ELSE <<ConfigPath(root, d)>>
        kids == ChildSeq(d)
        subs == ConcatAll([i \in 1..Len(kids) |-> findOrynt3dConfigFilesRecursively(kids[i])])
    IN  IF d \in unreadable THEN <<>>
        ELSE IF cfgFirst THEN own \o subs ELSE subs \o own

\* the directories the crawl calls itself on: the root and every directory
\* listed by a readable directory it has called itself on
RECURSIVE Visited(_)
Visited(d) ==
    d = <<>> \/ (LET parent == SubSeq(d, 1, Len(d) - 1)
                 IN  Visited(parent) /\ parent \notin unreadable)

\* the directories whose entries the crawl sees
Listed(d) == Visited(d) /\ d \notin unreadable

---------------------------------------------------------------------------
(* Config classifier *)

isReleaseKey(k) == k = "release" \/ k = "subscription"

\* the earlier rule: release attributes count only with a null name
isReleaseConfig_NullNameOnly(config) ==
    /\ IsDoc(config)
    /\ config.hasScan
    /\ config.hasMeta
    /\ config.name = JNull
    /\ \E i \in 1..Len(config.scanAttrs) : isReleaseKey(config.scanAttrs[i].key)

isReleaseConfig(config) ==
    /\ IsDoc(config)
    /\ config.hasScan
    /\ config.hasMeta
    /\ \E i \in 1..Len(config.scanAttrs) : isReleaseKey(config.scanAttrs[i].key)

isValidModelConfig(config) ==
    /\ IsDoc(config)
    /\ config.hasMeta
    /\ \/ config.name # JNull
       \/ (Truthy(config.cover) /\ config.cover.t = "str")

---------------------------------------------------------------------------
(* Release resolver *)

\* releaseConfigs.set(filePath, {config, dirPath}) on the insertion-ordered Map
MapSetRelease(m, filePath, config) ==
    LET e == [path |-> filePath, config |-> config, dirPath |-> PathDirname(filePath)]
        I == {i \in 1..Len(m) : m[i].path = filePath}
    IN  IF I = {} THEN Append(m, e)
        ELSE [i \in 1..Len(m) |-> IF i \in I THEN e ELSE m[i]]

\* the containment test without the separator after the release directory
IsApplicable_TextualPrefix(modelDir, releaseDir) ==
    \/ modelDir = releaseDir
    \/ StartsWith(modelDir, releaseDir)

IsApplicable(modelDir, releaseDir) ==
    \/ modelDir = releaseDir
    \/ StartsWith(modelDir, releaseDir \o <<Sep>>)

\* a single pass: only the release configs listed before the model's config
ApplicableEntries_SeenSoFar(modelConfigPath) ==
    LET modelDir == PathDirname(modelConfigPath)
        Pos(q) == CHOOSE i \in 1..Len(configFiles) : configFiles[i] = q
    IN  SelectSeq(releaseConfigs,
                  LAMBDA r : IsApplicable(modelDir, r.dirPath) /\ Pos(r.path) < Pos(modelConfigPath))

\* the entries of the Map that findApplicableReleaseConfigs selects
ApplicableEntries(modelConfigPath) ==
    LET modelDir == PathDirname(modelConfigPath)
    IN  SelectSeq(releaseConfigs, LAMBDA r : IsApplicable(modelDir, r.dirPath))

findApplicableReleaseConfigs(modelConfigPath) ==
    LET hits == ApplicableEntries(modelConfigPath)
    IN  [i \in 1..Len(hits) |-> hits[i].config]

---------------------------------------------------------------------------
(* Stable identity *)

\* modelmeta.name values of the configs of the model
NameA == <<"a">>
NameAB == <<"a","-","b">>
NameUpperB == <<"B">>
S_dot == <<".">>

\* path of the config file of directory d relative to the scan root
RelConfigPath(d) == PathRelative(<<Sep>>, ConfigPath(<<Sep>>, d))

\* every string the trees of this module can hand to the digest: `${name}-${relativePath}`
HashNames == {NameA, NameAB, NameUpperB, SegB, SegBB, S_dot}
HashInputs == {n \o <<"-">> \o RelConfigPath(d) : n \in HashNames, d \in Dirs}

RECURSIVE EnumerateSet(_)
EnumerateSet(S) ==
    IF S = {} THEN <<>>
    ELSE LET x == CHOOSE y \in S : TRUE IN <<x>> \o EnumerateSet(S \ {x})

HashInputList == EnumerateSet(HashInputs)

HexDigits == <<"0","1","2","3","4","5","6","7","8","9","a","b","c","d","e","f">>

\* crypto.createHash('md5').update(s).digest('hex').substring(0, 8): eight hex
\* digits, a different value for every different input in HashInputs
\* (the truncated digest is taken to be collision-free)
Md5Hex8(s) ==
    LET n == CHOOSE i \in 1..Len(HashInputList) : HashInputList[i] = s
    IN  <<"0","0","0","0","0","0", HexDigits[(n \div 16) + 1], HexDigits[(n % 16) + 1]>>

\* the id of generateId: the name's slug and the clock
generateStableId_Timestamp(name, configPath) ==
    NormalizeSlug(name) \o <<"-">> \o <<HexDigits[(now % 16) + 1]>>

\* the digest without the name's slug in front
generateStableId_HashOnly(name, configPath) ==
    Md5Hex8(name \o <<"-">> \o PathRelative(root, configPath))

generateStableId(name, configPath) ==
    LET relativePath == PathRelative(root, configPath)
        sourceToHash == name \o <<"-">> \o relativePath
        hash == Md5Hex8(sourceToHash)
        normalizedName == NormalizeSlug(name)
    IN  normalizedName \o <<"-">> \o hash

---------------------------------------------------------------------------
(* Image resolver *)

S_png == <<".","p","n","g">>
S_jpg == <<".","j","p","g">>
S_jpeg == <<".","j","p","e","g">>
S_webp == <<".","w","e","b","p">>
S_gif == <<".","g","i","f">>
imageExtensions == <<S_png, S_jpg, S_jpeg, S_webp, S_gif>>
IsImageExt(e) == \E i \in 1..Len(imageExtensions) : imageExtensions[i] = e

S_fn == <<"f","n">>
S_preview == <<"p","r","e","v","i","e","w">>
S_images == <<"i","m","a","g","e","s">>
S_thumbnails == <<"t","h","u","m","b","n","a","i","l","s">>
S_previews == <<"p","r","e","v","i","e","w","s">>
imageDirs == <<S_images, S_thumbnails, S_preview, S_previews>>

\* path.extname(file) for a bare file name
PathExtname(f) ==
    LET I == {i \in 2..Len(f) : f[i] = "."}
    IN  IF I = {} THEN <<>>
        ELSE SubSeq(f, CHOOSE i \in I : \A j \in I : j <= i, Len(f))

\* String.prototype.includes
Includes(s, sub) ==
    \E i \in 1..(Len(s) - Len(sub) + 1) : SubSeq(s, i, i + Len(sub) - 1) = sub

\* first element of the listing among the positions hits, as an optional value
\* (a for loop over the listing that returns at the first match)
FirstWhere(list, hits) ==
    IF hits = {} THEN Absent
    ELSE Present(list[CHOOSE i \in hits : \A j \in hits : i <= j])

\* priority 1 test: a .png whose name starts with "fn" or contains "preview"
IsFnOrPreviewPng(f) ==
    /\ ToLowerCase(PathExtname(f)) = S_png
    /\ (StartsWith(ToLowerCase(f), S_fn) \/ Includes(ToLowerCase(f), S_preview))

\* priority 2 test: any .png
IsPng(f) == ToLowerCase(PathExtname(f)) = S_png

\* priorities 4 and 5 test: any file with an image extension
IsImage(f) == IsImageExt(ToLowerCase(PathExtname(f)))

\* positions of the listing whose file passes the priority-1 test
FnOrPreviewPngs(list) == {i \in 1..Len(list) : IsFnOrPreviewPng(list[i])}

\* positions of the listing that hold a .png
Pngs(list) == {i \in 1..Len(list) : IsPng(list[i])}

\* positions of the listing that hold an image
Images(list) == {i \in 1..Len(list) : IsImage(list[i])}

\* fs.existsSync(path.join(modelDir, name)) for a name without separator
ExistsIn(d, name) ==
    \/ \E i \in 1..Len(files[d].own) : files[d].own[i] = name
    \/ name = CONFIG_FILENAME /\ tree[d] # NoFile
    \/ \E k \in 1..Len(imageDirs) : imageDirs[k] = name /\ files[d].sub[k] # Absent
    \/ \E c \in Dirs : IsChild(d, c) /\ c[Len(c)] = name

\* readdirSync of the k-th image sub-directory when it exists, else nothing
SubListing(d, k) == IF files[d].sub[k] = Absent THEN <<>> ELSE files[d].sub[k][1]

\* the first image of the first image sub-directory that holds one
RECURSIVE FirstSubImage(_, _, _)
FirstSubImage(d, modelDir, k) ==
    IF k > Len(imageDirs) THEN Absent
    ELSE LET hit == FirstWhere(SubListing(d, k), Images(SubListing(d, k)))
         IN  IF hit # Absent THEN Present(PathJoin(PathJoin(modelDir, imageDirs[k]), hit[1]))
             ELSE FirstSubImage(d, modelDir, k + 1)

\* priorities 1 and 2 of findCoverImage alone
findPngOnly(d) ==
    LET modelDir == AbsDir(root, d)
        list == files[d].own
        p1 == FirstWhere(list, FnOrPreviewPngs(list))
        p2 == FirstWhere(list, Pngs(list))
    IN  IF p1 # Absent THEN Present(PathJoin(modelDir, p1[1]))
        ELSE IF p2 # Absent THEN Present(PathJoin(modelDir, p2[1]))
        ELSE Absent

\* a resolver that tries the configured cover before the PNGs of the directory
findCoverImage_CoverFirst(d, coverFilename) ==
    LET modelDir == AbsDir(root, d)
        list == files[d].own
        p1 == FirstWhere(list, FnOrPreviewPngs(list))
        p2 == FirstWhere(list, Pngs(list))
        cover == IF coverFilename = Absent THEN <<>> ELSE coverFilename[1]
        p3ext == FirstWhere(imageExtensions,
                            {i \in 1..Len(imageExtensions) : ExistsIn(d, cover \o imageExtensions[i])})
        p3 == IF coverFilename = Absent \/ cover = <<>> THEN Absent
              ELSE IF ExistsIn(d, cover) THEN Present(PathJoin(modelDir, cover))
              ELSE IF PathExtname(cover) = <<>> /\ p3ext # Absent
                   THEN Present(PathJoin(modelDir, cover \o p3ext[1]))
              ELSE Absent
        p4 == FirstWhere(list, Images(list))
    IN  IF p3 # Absent THEN p3
        ELSE IF p1 # Absent THEN Present(PathJoin(modelDir, p1[1]))
        ELSE IF p2 # Absent THEN Present(PathJoin(modelDir, p2[1]))
        ELSE IF p4 # Absent THEN Present(PathJoin(modelDir, p4[1]))
        ELSE FirstSubImage(d, modelDir, 1)

\* findCoverImage(modelDir, coverFilename) for the directory d of the tree;
\* coverFilename is Absent for null; the result is Absent for null
findCoverImage(d, coverFilename) ==
    LET modelDir == AbsDir(root, d)
        list == files[d].own
        p1 == FirstWhere(list, FnOrPreviewPngs(list))
        p2 == FirstWhere(list, Pngs(list))
        cover == IF coverFilename = Absent THEN <<>> ELSE coverFilename[1]
        p3ext == FirstWhere(imageExtensions,
                            {i \in 1..Len(imageExtensions) : ExistsIn(d, cover \o imageExtensions[i])})
        p3 == IF coverFilename = Absent \/ cover = <<>> THEN Absent
              ELSE IF ExistsIn(d, cover) THEN Present(PathJoin(modelDir, cover))
              ELSE IF PathExtname(cover) = <<>> /\ p3ext # Absent
                   THEN Present(PathJoin(modelDir, cover \o p3ext[1]))
              ELSE Absent
        p4 == FirstWhere(list, Images(list))
    IN  IF p1 # Absent THEN Present(PathJoin(modelDir, p1[1]))
        ELSE IF p2 # Absent THEN Present(PathJoin(modelDir, p2[1]))
        ELSE IF p3 # Absent THEN p3
        ELSE IF p4 # Absent THEN Present(PathJoin(modelDir, p4[1]))
        ELSE FirstSubImage(d, modelDir, 1)

---------------------------------------------------------------------------
(* Model builder *)

S_imagesPrefix == <<"/","i","m","a","g","e","s","/">>
S_http == <<"h","t","t","p">>

\* existingModels.has(id) / existingModels.get(id) on the Map id -> image
MapHas(m, k) == \E i \in 1..Len(m) : m[i].key = k
MapGet(m, k) == m[CHOOSE i \in 1..Len(m) : m[i].key = k].value
MapSet(m, k, v) ==
    IF MapHas(m, k)
    THEN [i \in 1..Len(m) |-> IF m[i].key = k THEN [key |-> k, value |-> v] ELSE m[i]]
    ELSE Append(m, [key |-> k, value |-> v])

HasKey(attributes, k) == \E i \in 1..Len(attributes) : attributes[i].key = k
HasTag(tags, t) == \E i \in 1..Len(tags) : tags[i] = t

\* the loop body without the test for an existing key
ApplyReleaseAttr_AlwaysAppend(md, attr) ==
    LET promoted ==
            IF attr.key = "release" THEN [md EXCEPT !.release = Present(attr.value)]
            ELSE IF attr.key = "subscription" THEN [md EXCEPT !.subscription = Present(attr.value)]
            ELSE md
    IN  [promoted EXCEPT !.attributes = Append(@, [key |-> attr.key, value |-> attr.value])]

\* body of the loop over releaseConfig.scancfg.attributes.include
ApplyReleaseAttr(md, attr) ==
    LET promoted ==
            IF attr.key = "release" THEN [md EXCEPT !.release = Present(attr.value)]
            ELSE IF attr.key = "subscription" THEN [md EXCEPT !.subscription = Present(attr.value)]
            ELSE md
    IN  IF ~HasKey(promoted.attributes, attr.key)
        THEN [promoted EXCEPT !.attributes = Append(@, [key |-> attr.key, value |-> attr.value])]
        ELSE promoted

\* body of the loop over releaseConfig.scancfg.tags.include
ApplyReleaseTag(md, tag) ==
    IF ~HasTag(md.tags, tag) THEN [md EXCEPT !.tags = Append(@, tag)] ELSE md

RECURSIVE ApplyReleaseAttrs(_, _)
ApplyReleaseAttrs(md, attrs) ==
    IF attrs = <<>> THEN md
    ELSE ApplyReleaseAttrs(ApplyReleaseAttr(md, Head(attrs)), Tail(attrs))

RECURSIVE ApplyReleaseTags(_, _)
ApplyReleaseTags(md, tags) ==
    IF tags = <<>> THEN md
    ELSE ApplyReleaseTags(ApplyReleaseTag(md, Head(tags)), Tail(tags))

\* the loop over the applicable release configs
RECURSIVE ApplyReleaseConfigs(_, _)
ApplyReleaseConfigs(md, rcs) ==
    IF rcs = <<>> THEN md
    ELSE LET rc == Head(rcs)
             a == IF rc.hasScan THEN ApplyReleaseAttrs(md, rc.scanAttrs) ELSE md
             b == IF rc.hasScan THEN ApplyReleaseTags(a, rc.scanTags) ELSE a
         IN  ApplyReleaseConfigs(b, Tail(rcs))

\* the name the entry gets: modelmeta.name || modelName
ResolvedName(modelConfig, configPath) ==
    LET modelDir == PathDirname(configPath)
        relativePath == PathRelative(root, configPath)
        dirStructure == SplitSep(PathDirname(relativePath))
        dirName == PathBasename(modelDir)
        meaningfulSegments == SelectSeq(dirStructure, NonBlank)
        modelName == IF Len(meaningfulSegments) > 0
                     THEN meaningfulSegments[Len(meaningfulSegments)]
                     ELSE dirName
    IN  IF Truthy(modelConfig.name) /\ modelConfig.name.t = "str"
        THEN modelConfig.name.s ELSE modelName

\* the image found in the directory, whatever the prior catalog holds
InitialImage_NotPreserved(modelConfig, configPath, modelId) ==
    LET d == DirOfConfig(configPath)
        byCover == IF Truthy(modelConfig.cover) /\ modelConfig.cover.t = "str"
                   THEN findCoverImage(d, Present(modelConfig.cover.s))
                   ELSE Absent
    IN  IF byCover # Absent THEN byCover ELSE findCoverImage(d, Absent)

\* the image the entry starts with: the preserved web path, else the resolver's
InitialImage(modelConfig, configPath, modelId) ==
    LET d == DirOfConfig(configPath)
        existingImagePath == MapGet(existingModels, modelId)
        preserved ==
            IF /\ MapHas(existingModels, modelId)
               /\ (StartsWith(existingImagePath, S_imagesPrefix) \/ StartsWith(existingImagePath, S_http))
            THEN Present(existingImagePath)
            ELSE Absent
        \* a truthy cover that is no string makes path.join throw inside
        \* findCoverImage, which then returns null unless a PNG was found before
        byCover == IF Truthy(modelConfig.cover)
                   THEN (IF modelConfig.cover.t = "str"
                         THEN findCoverImage(d, Present(modelConfig.cover.s))
                         ELSE findPngOnly(d))
                   ELSE Absent
        coverImage == IF byCover # Absent THEN byCover ELSE findCoverImage(d, Absent)
    IN  IF preserved # Absent THEN preserved ELSE coverImage

\* the dateAdded of a newly built entry: new Date().toISOString()
NewDateAdded(modelId) == now

processModelConfig(modelConfig, configPath, rcs) ==
    LET relativePath == PathRelative(root, configPath)
        dirStructure == SplitSep(PathDirname(relativePath))
        name == ResolvedName(modelConfig, configPath)
        modelId == generateStableId(name, configPath)
        modelData ==
            [id |-> modelId,
             name |-> name,
             notes |-> modelConfig.notes,
             tags |-> modelConfig.mtags,
             collections |-> modelConfig.collections,
             attributes |-> modelConfig.mattrs,
             sourcePath |-> configPath,
             relativeSourcePath |-> relativePath,
             dateAdded |-> NewDateAdded(modelId),
             directoryCollection |->
                 IF Len(dirStructure) > 0 /\ dirStructure[1] # <<>>
                 THEN Present(dirStructure[1]) ELSE Absent,
             image |-> InitialImage(modelConfig, configPath, modelId),
             release |-> Absent,
             subscription |-> Absent]
    IN  ApplyReleaseConfigs(modelData, rcs)

---------------------------------------------------------------------------
(* extract-model-data.js: the run, one step per loop iteration *)

\* loadExistingDataFile: the Map id -> image of the prior catalog
RECURSIVE LoadExisting(_, _)
LoadExisting(m, ms) ==
    IF ms = <<>> THEN m
    ELSE LET model == Head(ms)
             next == IF model.id # <<>> /\ model.image # Absent /\ model.image[1] # <<>>
                     THEN MapSet(m, model.id, model.image[1])
                     ELSE m
         IN  LoadExisting(next, Tail(ms))

loadExistingDataFile ==
    IF dataFile = Absent THEN <<>> ELSE LoadExisting(<<>>, dataFile[1].models)

\* number of entries of a directory listing that are regular files
FilesSeen ==
    LET F == [d \in Dirs |->
                 IF Listed(d)
                 THEN (IF tree[d].t \in {"none", "link"} THEN 0 ELSE 1) + Len(files[d].own)
                 ELSE 0]
        RECURSIVE Sum(_)
        Sum(i) == IF i = 0 THEN 0 ELSE F[DirList[i]] + Sum(i - 1)
    IN  Sum(Len(DirList))

\* a start of the extraction that does not look whether the scan root exists
ExtractStart_NoRootCheck ==
    /\ pc = "idle"
    /\ runsLeft > 0
    /\ runsLeft' = runsLeft - 1
    /\ now' = now + 1
    /\ prior' = dataFile
    /\ releaseConfigs' = <<>>
    /\ models' = <<>>
    /\ applied' = <<>>
    /\ errorCount' = 0
    /\ idx' = 0
    /\ existingModels' = loadExistingDataFile
    /\ configFiles' = IF rootExists THEN findOrynt3dConfigFilesRecursively(<<>>) ELSE <<>>
    /\ pc' = IF configFiles' = <<>> THEN "write" ELSE "analyze"
    /\ UNCHANGED <<exitCode, trail>>
    /\ UNCHANGED <<srcVars, dataFile, issued, buildVars>>

\* mainExtractModelData up to the first pass: load the prior catalog, crawl
ExtractStart ==
    /\ pc = "idle"
    /\ runsLeft > 0
    /\ runsLeft' = runsLeft - 1
    /\ now' = now + 1
    /\ prior' = dataFile
    /\ releaseConfigs' = <<>>
    /\ models' = <<>>
    /\ applied' = <<>>
    /\ errorCount' = 0
    /\ idx' = 0
    /\ IF ~rootExists
       THEN \* the scan root is missing: process.exit(1) before anything is read
            /\ existingModels' = <<>>
            /\ configFiles' = <<>>
            /\ pc' = "idle"
            /\ exitCode' = 1
            /\ trail' = Append(trail, [script |-> "extract", exitCode |-> 1,
                                       dataFile |-> dataFile])
       ELSE /\ existingModels' = loadExistingDataFile
            /\ configFiles' = findOrynt3dConfigFilesRecursively(<<>>)
            /\ pc' = IF configFiles' = <<>> THEN "write" ELSE "analyze"
            /\ UNCHANGED <<exitCode, trail>>
    /\ UNCHANGED <<srcVars, dataFile, issued, buildVars>>

\* one iteration of the loop of analyzeConfigFiles
AnalyzeStep ==
    /\ pc = "analyze"
    /\ idx < Len(configFiles)
    /\ LET filePath == configFiles[idx + 1]
           config == ReadConfig(filePath)
       IN  releaseConfigs' =
               IF config # BadJson /\ isReleaseConfig(config)
               THEN MapSetRelease(releaseConfigs, filePath, config)
               ELSE releaseConfigs
    /\ idx' = IF idx + 1 = Len(configFiles) THEN 0 ELSE idx + 1
    /\ pc' = IF idx + 1 = Len(configFiles) THEN "process" ELSE "analyze"
    /\ UNCHANGED <<srcVars, dataFile, now, configFiles, existingModels, models,
                   errorCount, applied, runsLeft, prior, exitCode, issued, trail,
                   buildVars>>

\* a loop of processModelConfigs that an unparsable file ends
ProcessStep_StopAtError ==
    /\ pc = "process"
    /\ idx < Len(configFiles)
    /\ LET filePath == configFiles[idx + 1]
           config == ReadConfig(filePath)
           built == config # BadJson /\ ~isReleaseConfig(config) /\ isValidModelConfig(config)
           hits == ApplicableEntries(filePath)
           last == idx + 1 = Len(configFiles) \/ config = BadJson
       IN  /\ models' =
                 IF built
                 THEN Append(models,
                             processModelConfig(config, filePath,
                                                findApplicableReleaseConfigs(filePath)))
                 ELSE models
           /\ applied' =
                 IF built
                 THEN Append(applied, [model |-> filePath,
                                       releases |-> [i \in 1..Len(hits) |-> hits[i].path]])
                 ELSE applied
           /\ errorCount' = IF config = BadJson THEN errorCount + 1 ELSE errorCount
           /\ issued' =
                 IF built
                 THEN LET md == models'[Len(models')]
                      IN  issued \cup {[name |-> md.name, rel |-> md.relativeSourcePath,
                                        id |-> md.id, run |-> now, root |-> root,
                                        at |-> Len(models')]}
                 ELSE issued
           /\ idx' = IF last THEN 0 ELSE idx + 1
           /\ pc' = IF last THEN "write" ELSE "process"
    /\ UNCHANGED <<srcVars, dataFile, now, configFiles, releaseConfigs,
                   existingModels, runsLeft, prior, exitCode, trail, buildVars>>

\* one iteration of the loop of processModelConfigs
ProcessStep ==
    /\ pc = "process"
    /\ idx < Len(configFiles)
    /\ LET filePath == configFiles[idx + 1]
           config == ReadConfig(filePath)
           built == config # BadJson /\ ~isReleaseConfig(config) /\ isValidModelConfig(config)
           hits == ApplicableEntries(filePath)
       IN  /\ models' =
                 IF built
                 THEN Append(models,
                             processModelConfig(config, filePath,
                                                findApplicableReleaseConfigs(filePath)))
                 ELSE models
           /\ applied' =
                 IF built
                 THEN Append(applied, [model |-> filePath,
                                       releases |-> [i \in 1..Len(hits) |-> hits[i].path]])
                 ELSE applied
           /\ errorCount' = IF config = BadJson THEN errorCount + 1 ELSE errorCount
           /\ issued' =
                 IF built
                 THEN LET md == models'[Len(models')]
                      IN  issued \cup {[name |-> md.name, rel |-> md.relativeSourcePath,
                                        id |-> md.id, run |-> now, root |-> root,
                                        at |-> Len(models')]}
                 ELSE issued
    /\ idx' = IF idx + 1 = Len(configFiles) THEN 0 ELSE idx + 1
    /\ pc' = IF idx + 1 = Len(configFiles) THEN "write" ELSE "process"
    /\ UNCHANGED <<srcVars, dataFile, now, configFiles, releaseConfigs,
                   existingModels, runsLeft, prior, exitCode, trail, buildVars>>

\* a catalog whose totalCount counts the config files found
combinedData_CountsConfigFiles ==
    [models |-> models,
     lastUpdated |-> now,
     totalCount |-> Len(configFiles),
     scanStats |-> [directoriesScanned |-> Cardinality({d \in Dirs : Visited(d)}),
                    totalFilesFound |-> FilesSeen,
                    configFilesFound |-> Len(configFiles),
                    releaseConfigsFound |-> Len(releaseConfigs),
                    scanDurationSeconds |-> now]]

\* the catalog mainExtractModelData writes
combinedData ==
    [models |-> models,
     lastUpdated |-> now,
     totalCount |-> Len(models),
     scanStats |-> [directoriesScanned |-> Cardinality({d \in Dirs : Visited(d)}),
                    totalFilesFound |-> FilesSeen,
                    configFilesFound |-> Len(configFiles),
                    releaseConfigsFound |-> Len(releaseConfigs),
                    scanDurationSeconds |-> now]]

\* fs.writeFileSync(OUTPUT_DATA_FILE, ...) and the end of the run
WriteCatalog ==
    /\ pc = "write"
    /\ dataFile' = Present(combinedData)
    /\ pc' = "idle"
    /\ exitCode' = 0
    /\ trail' = Append(trail, [script |-> "extract", exitCode |-> 0,
                               dataFile |-> dataFile'])
    /\ UNCHANGED <<srcVars, now, extractVars, runsLeft, issued, buildVars>>

ExtractNext == ExtractStart \/ AnalyzeStep \/ ProcessStep \/ WriteCatalog

---------------------------------------------------------------------------
(* build-nextjs-app.js: data file, build cache, change detection *)

S_placeholderFile ==
    <<"p","l","a","c","e","h","o","l","d","e","r","-","m","o","d","e","l",".","p","n","g">>
S_modelPrefix == <<"m","o","d","e","l","-">>
S_defaultId == <<"d","e","f","a","u","l","t","-","3","d","-","m","o","d","e","l">>
S_defaultName == <<"D","e","f","a","u","l","t"," ","3","D"," ","M","o","d","e","l">>

\* '/images/placeholder-model.png'
PlaceholderImage == S_imagesPrefix \o S_placeholderFile

\* the catalog ensureDataFileExists writes when there is no data file
DefaultData(t) ==
    [models |-> << [id |-> S_defaultId,
                    name |-> S_defaultName,
                    description |-> "default",
                    collection |-> "Default",
                    dateAdded |-> t,
                    attributes |-> [type |-> "Demo", material |-> "Virtual", color |-> "Multi"],
                    image |-> Absent] >>,
     lastUpdated |-> t,
     totalCount |-> 1,
     isDefaultData |-> TRUE]

\* the data the build works on, and whether it had to create the file
ensureDataFileExists(t) == IF dataFile = Absent THEN DefaultData(t) ELSE dataFile[1]

\* a property of an entry as JSON.stringify sees it: missing or its value
Field(model, f) == IF f \in DOMAIN model THEN Present(model[f]) ELSE Absent

\* release / subscription, which an entry carries only when a release config set them
OptField(model, f) == IF f \in DOMAIN model THEN model[f] ELSE Absent

\* a hash that also covers the image and the time of creation
calculateModelHash_WithImageAndDate(model) ==
    [name |-> Field(model, "name"),
     notes |-> Field(model, "notes"),
     tags |-> Field(model, "tags"),
     collections |-> Field(model, "collections"),
     attributes |-> Field(model, "attributes"),
     sourcePath |-> Field(model, "sourcePath"),
     release |-> OptField(model, "release"),
     subscription |-> OptField(model, "subscription"),
     image |-> OptField(model, "image"),
     dateAdded |-> Field(model, "dateAdded")]

\* md5 of the JSON of the eight hashed fields: equal digests for equal field
\* values (the full digest is taken to be collision-free)
calculateModelHash(model) ==
    [name |-> Field(model, "name"),
     notes |-> Field(model, "notes"),
     tags |-> Field(model, "tags"),
     collections |-> Field(model, "collections"),
     attributes |-> Field(model, "attributes"),
     sourcePath |-> Field(model, "sourcePath"),
     release |-> OptField(model, "release"),
     subscription |-> OptField(model, "subscription")]

\* model.image is a non-empty string that is neither a URL nor a published path
IsSourceImage(image) ==
    /\ image # Absent
    /\ image[1] # <<>>
    /\ ~StartsWith(image[1], S_imagesPrefix)
    /\ ~StartsWith(image[1], S_http)

\* every model is taken for new
IsNewOrModified_Always(model, cache) == TRUE

\* the test of categorizeModels for "new or modified"
IsNewOrModified(model, cache) ==
    \/ ~MapHas(cache.models, model.id)
    \/ MapGet(cache.models, model.id).hash # calculateModelHash(model)
    \/ IsSourceImage(model.image)
    \/ model.image = Present(PlaceholderImage)

\* the cache loadBuildCache starts with when there is no cache file
EmptyCache == [models |-> <<>>, lastBuild |-> Absent]

loadBuildCache_Empty == EmptyCache

\* loadBuildCache: the parsed cache file when there is one
loadBuildCache == IF cacheFile = Absent THEN EmptyCache ELSE cacheFile[1]

\* the forEach of categorizeModels from position i on; acc collects newModels
RECURSIVE categorizeFrom(_, _, _, _, _)
categorizeFrom(ms, cache, i, acc, t) ==
    IF i > Len(ms) THEN [newModels |-> acc, cache |-> cache]
    ELSE IF IsNewOrModified(ms[i], cache)
    THEN categorizeFrom(ms,
                        [cache EXCEPT !.models =
                            MapSet(@, ms[i].id, [hash |-> calculateModelHash(ms[i]),
                                                 lastProcessed |-> t,
                                                 imagePath |-> Absent])],
                        i + 1, Append(acc, i), t)
    ELSE categorizeFrom(ms, cache, i + 1, acc, t)

categorizeModels(ms, cache, t) == categorizeFrom(ms, cache, 1, <<>>, t)

---------------------------------------------------------------------------
(* build-nextjs-app.js: image materialization *)

\* what an absolute path names in the source tree: "file", "dir" or "none"
PathKind(p) ==
    IF ~rootExists THEN "none"
    ELSE IF \E d \in Dirs :
               \/ \E i \in 1..Len(files[d].own) : p = PathJoin(AbsDir(root, d), files[d].own[i])
               \/ tree[d] # NoFile /\ p = ConfigPath(root, d)
               \/ \E k \in 1..Len(imageDirs) :
                     /\ files[d].sub[k] # Absent
                     /\ \E j \in 1..Len(files[d].sub[k][1]) :
                           p = PathJoin(PathJoin(AbsDir(root, d), imageDirs[k]),
                                        files[d].sub[k][1][j])
         THEN "file"
    ELSE IF \E d \in Dirs :
               \/ p = AbsDir(root, d)
               \/ \E k \in 1..Len(imageDirs) :
                     files[d].sub[k] # Absent /\ p = PathJoin(AbsDir(root, d), imageDirs[k])
         THEN "dir"
    ELSE "none"

\* str.toLowerCase().replace(/[^a-z0-9]/g, '')
StripNonAlnum(s) == SelectSeq(ToLowerCase(s), LAMBDA c : c \in LowerAlnum)

EndsWith(s, e) == Len(e) <= Len(s) /\ SubSeq(s, Len(s) - Len(e) + 1, Len(s)) = e

\* path.basename(file, ext) for a bare file name
BasenameExt(file, ext) ==
    IF ext # <<>> /\ file # ext /\ EndsWith(file, ext)
    THEN SubSeq(file, 1, Len(file) - Len(ext)) ELSE file

S_thumbnail == <<"t","h","u","m","b","n","a","i","l">>

commonCoverNames == << <<"c","o","v","e","r">>, S_thumbnail, S_preview, <<"m","a","i","n">> >>

\* second search of findAlternativeImage: an image whose base name and the
\* model's name contain one another
MatchesName(file, modelName) ==
    LET ext == ToLowerCase(PathExtname(file))
        normalizedModelName == StripNonAlnum(modelName)
        baseName == StripNonAlnum(BasenameExt(file, ext))
    IN  /\ IsImageExt(ext)
        /\ (Includes(baseName, normalizedModelName) \/ Includes(normalizedModelName, baseName))

\* third search: an image whose base name contains the cover name
MatchesCoverName(file, coverName) ==
    LET ext == ToLowerCase(PathExtname(file))
    IN  IsImageExt(ext) /\ Includes(ToLowerCase(BasenameExt(file, ext)), coverName)

RECURSIVE FirstCoverNamed(_, _)
FirstCoverNamed(list, k) ==
    IF k > Len(commonCoverNames) THEN Absent
    ELSE LET hit == FirstWhere(list, {i \in 1..Len(list) :
                                         MatchesCoverName(list[i], commonCoverNames[k])})
         IN  IF hit # Absent THEN hit ELSE FirstCoverNamed(list, k + 1)

\* findAlternativeImage(modelDir, modelName); Absent for null
findAlternativeImage(modelDir, modelName) ==
    LET D == {d \in Dirs : AbsDir(root, d) = modelDir}
    IN  IF ~rootExists \/ D = {} THEN Absent
        ELSE LET d == CHOOSE x \in D : TRUE
                 list == files[d].own
                 png == FirstWhere(list, Pngs(list))
                 named == IF modelName # <<>>
                          THEN FirstWhere(list, {i \in 1..Len(list) : MatchesName(list[i], modelName)})
                          ELSE Absent
                 common == FirstCoverNamed(list, 1)
                 any == FirstWhere(list, Images(list))
             IN  IF png # Absent THEN Present(PathJoin(modelDir, png[1]))
                 ELSE IF named # Absent THEN Present(PathJoin(modelDir, named[1]))
                 ELSE IF common # Absent THEN Present(PathJoin(modelDir, common[1]))
                 ELSE IF any # Absent THEN Present(PathJoin(modelDir, any[1]))
                 ELSE FirstSubImage(d, modelDir, 1)

\* `model-${model.id}-${path.basename(source)}`
PublishedName(model, source) == S_modelPrefix \o model.id \o <<"-">> \o PathBasename(source)

\* a loop body that neither copies nor sets anything
MaterializeImage_Nothing(model) == [copy |-> Absent, image |-> Absent]

\* the image the loop body of processModelImages decides for a model:
\* [copy |-> the source it copies, if any; image |-> the new value, if any]
MaterializeImage(model) ==
    LET copied(source) == [copy |-> Present(source),
                           image |-> Present(S_imagesPrefix \o PublishedName(model, source))]
        placeholder == [copy |-> Absent, image |-> Present(PlaceholderImage)]
        alternativeImage ==
            findAlternativeImage(PathDirname(model.sourcePath), model.name)
    IN  IF IsSourceImage(model.image)
        THEN IF PathKind(model.image[1]) = "file" THEN copied(model.image[1])
             \* copyFileSync of a directory throws; the catch falls back to the placeholder
             ELSE IF PathKind(model.image[1]) = "dir" THEN placeholder
             ELSE IF "sourcePath" \in DOMAIN model /\ model.sourcePath # <<>>
                  THEN (IF alternativeImage # Absent THEN copied(alternativeImage[1])
                        ELSE placeholder)
             ELSE placeholder
        ELSE IF model.image = Absent \/ model.image = Present(<<>>) THEN placeholder
        ELSE [copy |-> Absent, image |-> Absent]

\* the loop of processModelImages from position k of modelsToProcess on:
\* the data it leaves
RECURSIVE processModelImagesFrom(_, _, _)
processModelImagesFrom(d, modelsToProcess, k) ==
    IF k > Len(modelsToProcess) THEN d
    ELSE LET model == d.models[modelsToProcess[k]]
             modelIndex == CHOOSE i \in 1..Len(d.models) :
                               /\ d.models[i].id = model.id
                               /\ \A j \in 1..(i - 1) : d.models[j].id # model.id
             r == MaterializeImage(model)
         IN  processModelImagesFrom(
                 IF r.image # Absent
                 THEN [d EXCEPT !.models[modelIndex].image = r.image] ELSE d,
                 modelsToProcess, k + 1)

\* the catalog a build leaves when it starts at time t on the data file as it
\* is, with the given cache
CatalogAfterBuild(cache, t) ==
    LET d0 == ensureDataFileExists(t)
        cat == categorizeModels(d0.models, cache, t)
    IN  IF cat.newModels # <<>> THEN processModelImagesFrom(d0, cat.newModels, 1) ELSE d0

---------------------------------------------------------------------------
(* build-nextjs-app.js: the run *)

\* buildNextjsApp up to the image loop: data file, cache, categorizeModels,
\* and the placeholder file processModelImages creates before its loop
BuildStart ==
    /\ pc = "idle"
    /\ runsLeft > 0
    /\ runsLeft' = runsLeft - 1
    /\ now' = now + 1
    /\ LET d0 == ensureDataFileExists(now')
           cat == categorizeModels(d0.models, loadBuildCache, now')
       IN  /\ dataFile' = Present(d0)
           /\ data' = Present(d0)
           /\ buildCache' = cat.cache
           /\ newModels' = cat.newModels
           /\ publicImages' = IF cat.newModels # <<>>
                              THEN publicImages \cup {S_placeholderFile}
                              ELSE publicImages
           /\ pc' = IF cat.newModels # <<>> THEN "images" ELSE "finish"
    /\ bidx' = 0
    /\ copiedCount' = 0
    /\ UNCHANGED <<srcVars, extractVars, exitCode, issued, trail, cacheFile, nextConfig>>

\* one iteration of the loop of processModelImages; the last one is followed
\* by the write of the data file
ImageStep ==
    /\ pc = "images"
    /\ bidx < Len(newModels)
    /\ LET ms == data[1].models
           model == ms[newModels[bidx + 1]]
           modelIndex == CHOOSE i \in 1..Len(ms) :
                             /\ ms[i].id = model.id
                             /\ \A j \in 1..(i - 1) : ms[j].id # model.id
           r == MaterializeImage(model)
           last == bidx + 1 = Len(newModels)
       IN  /\ data' = IF r.image # Absent
                      THEN Present([data[1] EXCEPT !.models[modelIndex].image = r.image])
                      ELSE data
           /\ publicImages' = IF r.copy # Absent
                              THEN publicImages \cup {PublishedName(model, r.copy[1])}
                              ELSE publicImages
           /\ copiedCount' = IF r.copy # Absent THEN copiedCount + 1 ELSE copiedCount
           /\ buildCache' =
                 IF r.copy # Absent /\ MapHas(buildCache.models, model.id)
                 THEN [buildCache EXCEPT !.models =
                          MapSet(@, model.id,
                                 [MapGet(buildCache.models, model.id)
                                     EXCEPT !.imagePath = r.image])]
                 ELSE buildCache
           /\ dataFile' = IF last THEN data' ELSE dataFile
           /\ pc' = IF last THEN "finish" ELSE "images"
    /\ bidx' = bidx + 1
    /\ UNCHANGED <<srcVars, extractVars, now, runsLeft, exitCode, issued, trail,
                   cacheFile, nextConfig, newModels>>

\* embedModelDataIntoNextConfig: the placeholder, while it is still there, is
\* replaced by the data
embedModelDataIntoNextConfig(modelData) ==
    IF nextConfig = Absent THEN Present(modelData) ELSE nextConfig

\* saveBuildCache
saveBuildCache(cache) == Present([cache EXCEPT !.lastBuild = Present(now)])

\* the rest of buildNextjsApp: next build (its failure is only logged), the
\* embedding, the cache file
BuildFinish ==
    /\ pc = "finish"
    /\ nextConfig' = embedModelDataIntoNextConfig(data[1])
    /\ cacheFile' = saveBuildCache(buildCache)
    /\ pc' = "idle"
    /\ exitCode' = 0
    /\ trail' = Append(trail, [script |-> "build", exitCode |-> 0, dataFile |-> dataFile])
    /\ UNCHANGED <<srcVars, extractVars, dataFile, now, runsLeft, issued,
                   publicImages, data, buildCache, newModels, bidx, copiedCount>>

BuildNext == BuildStart \/ ImageStep \/ BuildFinish

---------------------------------------------------------------------------
(* Source trees *)

\* scan roots: the filesystem root and an ordinary directory
Roots == {<<Sep>>, <<Sep, "r">>}

BaseDoc ==
    [t |-> "doc", hasScan |-> TRUE, hasMeta |-> TRUE,
     scanAttrs |-> <<>>, scanTags |-> <<>>,
     name |-> JStr(NameA), cover |-> JNull, notes |-> "",
     mtags |-> <<>>, collections |-> <<>>, mattrs |-> <<>>]

Attr(k, v) == [key |-> k, value |-> v]

NoFiles == [d \in Dirs |-> [own |-> <<>>, sub |-> [k \in 1..Len(imageDirs) |-> Absent]]]

\* trees with at most MaxConfigs config files whose contents come from D
Trees(D) ==
    {t \in [Dirs -> D \cup {NoFile}] :
        Cardinality({d \in Dirs : t[d] # NoFile}) <= MaxConfigs}

\* trees whose config files lie in the directories DS only
TreesIn(DS, D) ==
    {[d \in Dirs |-> IF d \in DS THEN f[d] ELSE NoFile] : f \in [DS -> D \cup {NoFile}]}

InitRun(n) ==
    /\ pc = "idle"
    /\ configFiles = <<>>
    /\ idx = 0
    /\ releaseConfigs = <<>>
    /\ existingModels = <<>>
    /\ models = <<>>
    /\ applied = <<>>
    /\ errorCount = 0
    /\ runsLeft = n
    /\ now = 0
    /\ prior = Absent
    /\ exitCode = 0
    /\ issued = {}
    /\ trail = <<>>
    /\ cacheFile = Absent
    /\ publicImages = {}
    /\ nextConfig = Absent
    /\ data = Absent
    /\ buildCache = EmptyCache
    /\ newModels = <<>>
    /\ bidx = 0
    /\ copiedCount = 0

\* configs for the inheritance merge: release configs and models with own values
InheritDocs ==
    {[BaseDoc EXCEPT !.name = JNull,
                     !.scanAttrs = <<Attr("release", "R1")>>,
                     !.scanTags = <<"t1">>],
     [BaseDoc EXCEPT !.name = JNull,
                     !.scanAttrs = <<Attr("release", "R2"), Attr("painted", "yes")>>,
                     !.scanTags = <<"t2", "t1", "t2">>],
     [BaseDoc EXCEPT !.name = JNull,
                     !.scanAttrs = <<Attr("subscription", "S1"), Attr("subscription", "S2")>>],
     BaseDoc,
     [BaseDoc EXCEPT !.mattrs = <<Attr("release", "Own")>>, !.mtags = <<"t1">>],
     [BaseDoc EXCEPT !.mattrs = <<Attr("painted", "no"), Attr("subscription", "OwnS")>>,
                     !.mtags = <<"t3">>]}

InitInherit ==
    /\ root \in Roots
    /\ cfgFirst \in BOOLEAN
    /\ tree \in Trees(InheritDocs)
    /\ files = NoFiles
    /\ rootExists = TRUE
    /\ unreadable = {}
    /\ dataFile = Absent
    /\ InitRun(1)

SpecInherit == InitInherit /\ [][ExtractNext]_vars

S_coverPng == <<"c",".","p","n","g">>

\* configs for the classifier: every combination of name, cover and release
\* attribute, and documents that lack a section or do not parse
ClassifyDocs ==
    {[BaseDoc EXCEPT !.name = n, !.cover = c, !.scanAttrs = a] :
        n \in {JNull, JUndefined, JStr(NameA)},
        c \in {JNull, JStr(<<>>), JStr(S_coverPng)},
        a \in {<<>>, <<Attr("release", "R1")>>}}
    \cup {[BaseDoc EXCEPT !.scanAttrs = <<Attr("painted", "yes"), Attr("subscription", "S1")>>],
          [BaseDoc EXCEPT !.scanAttrs = <<Attr("painted", "yes")>>],
          [BaseDoc EXCEPT !.name = JNull, !.cover = JTrue],
          [BaseDoc EXCEPT !.name = JStr(<<>>)],
          [BaseDoc EXCEPT !.hasScan = FALSE],
          [BaseDoc EXCEPT !.hasMeta = FALSE, !.name = JUndefined, !.cover = JUndefined],
          [BaseDoc EXCEPT !.hasMeta = FALSE, !.name = JUndefined, !.cover = JUndefined,
                          !.scanAttrs = <<Attr("release", "R1")>>],
          BadJson}

\* classification reads the document, not its place: two directories do
InitClassify ==
    /\ root \in Roots
    /\ cfgFirst \in BOOLEAN
    /\ tree \in TreesIn({<<>>, <<SegB>>}, ClassifyDocs)
    /\ files = NoFiles
    /\ rootExists = TRUE
    /\ unreadable = {}
    /\ dataFile = Absent
    /\ InitRun(1)

SpecClassify == InitClassify /\ [][ExtractNext]_vars

\* configs for identities: given names, names taken from the directory, a
\* release config
IdDocs ==
    {[BaseDoc EXCEPT !.name = JStr(NameA)],
     [BaseDoc EXCEPT !.name = JStr(NameAB)],
     [BaseDoc EXCEPT !.name = JStr(NameUpperB)],
     [BaseDoc EXCEPT !.name = JNull, !.cover = JStr(S_coverPng)],
     [BaseDoc EXCEPT !.name = JNull, !.scanAttrs = <<Attr("release", "R1")>>]}

InitIds ==
    /\ root \in Roots
    /\ cfgFirst \in BOOLEAN
    /\ tree \in Trees(IdDocs)
    /\ files = NoFiles
    /\ rootExists = TRUE
    /\ unreadable = {}
    /\ dataFile = Absent
    /\ InitRun(1)

SpecIds == InitIds /\ [][ExtractNext]_vars

S_oldPng == <<"o","l","d",".","p","n","g">>

\* a catalog left by an earlier extraction and build: the model named "a" of
\* directory b, its image published
EarlierCatalog ==
    LET rel == RelConfigPath(<<SegB>>)
    IN  [models |-> << [id |-> NormalizeSlug(NameA) \o <<"-">>
                                  \o Md5Hex8(NameA \o <<"-">> \o rel),
                        name |-> NameA, notes |-> "", tags |-> <<>>,
                        collections |-> <<>>, attributes |-> <<>>,
                        sourcePath |-> ConfigPath(<<Sep, "r">>, <<SegB>>),
                        relativeSourcePath |-> rel,
                        dateAdded |-> 0,
                        directoryCollection |-> Present(SegB),
                        image |-> Present(S_imagesPrefix \o S_oldPng),
                        release |-> Absent, subscription |-> Absent] >>,
         lastUpdated |-> 0,
         totalCount |-> 1,
         scanStats |-> [directoriesScanned |-> Cardinality(Dirs), totalFilesFound |-> 1,
                        configFilesFound |-> 1, releaseConfigsFound |-> 0,
                        scanDurationSeconds |-> 0]]

\* configs of the trees that change between runs
RunDocs ==
    {BaseDoc,
     [BaseDoc EXCEPT !.name = JNull, !.scanAttrs = <<Attr("release", "R1")>>]}

RunTrees == TreesIn({<<>>, <<SegB>>}, RunDocs)

InitRuns ==
    /\ root \in Roots
    /\ cfgFirst \in BOOLEAN
    /\ tree \in RunTrees
    /\ files = NoFiles
    /\ rootExists = TRUE
    /\ unreadable = {}
    /\ dataFile \in {Absent, Present(EarlierCatalog)}
    /\ InitRun(MaxRuns)

\* between two runs: config files are added, removed or rewritten, the
\* directory listing order changes, ORYNT3D_DIR names another place
ChangeSource ==
    /\ pc = "idle"
    /\ runsLeft > 0
    /\ runsLeft < MaxRuns
    /\ root' \in Roots
    /\ cfgFirst' \in BOOLEAN
    /\ tree' \in RunTrees
    /\ <<root', cfgFirst', tree'>> # <<root, cfgFirst, tree>>
    /\ UNCHANGED <<files, rootExists, unreadable, dataFile, now, pc, extractVars, runsLeft,
                   exitCode, issued, trail, buildVars>>

SpecRuns == InitRuns /\ [][ExtractNext \/ ChangeSource]_vars

S_xJpg == <<"x",".","j","p","g">>
S_yGif == <<"y",".","g","i","f">>

\* configs of the pipeline's trees
PipelineDocs ==
    {BaseDoc,
     [BaseDoc EXCEPT !.name = JNull, !.cover = JStr(S_coverPng)],
     [BaseDoc EXCEPT !.name = JNull, !.scanAttrs = <<Attr("release", "R1")>>]}

\* the other files of directory b: none, a PNG, a JPEG; with or without an
\* images sub-directory
PipelineFiles ==
    {[NoFiles EXCEPT ![<<SegB>>] = [own |-> o,
                                    sub |-> [k \in 1..Len(imageDirs) |->
                                                IF k = 1 THEN s ELSE Absent]]] :
        o \in {<<>>, <<S_coverPng>>, <<S_xJpg>>},
        s \in {Absent, Present(<<S_yGif>>)}}

\* deploy.js on a fresh checkout: no data file, no cache, no published image
Init ==
    /\ root = <<Sep, "r">>
    /\ cfgFirst = TRUE
    /\ tree \in {t \in TreesIn({<<SegB>>, <<SegB, SegB>>}, PipelineDocs) :
                    t[<<SegB, SegB>>] \in {NoFile, BaseDoc}}
    /\ files \in PipelineFiles
    /\ rootExists \in BOOLEAN
    /\ unreadable = {}
    /\ dataFile = Absent
    /\ InitRun(2 * MaxRuns)

Next == ExtractNext \/ BuildNext

Spec == Init /\ [][Next]_vars

\* the last script that ended
LastScript == IF trail = <<>> THEN "none" ELSE trail[Len(trail)].script

\* trees of the repeated deploy: directory b holds a model config or none
DeployTrees == TreesIn({<<SegB>>}, {BaseDoc})

\* repeated runs of deploy.js from a fresh checkout, the source tree changing
\* between them
InitDeploy ==
    /\ root = <<Sep, "r">>
    /\ cfgFirst = TRUE
    /\ tree \in DeployTrees
    /\ files \in PipelineFiles
    /\ rootExists = TRUE
    /\ unreadable = {}
    /\ dataFile = Absent
    /\ InitRun(2 * (MaxRuns + 1))

\* deploy.js step 1: the extraction script
DeployExtract == LastScript # "extract" /\ ExtractStart

\* deploy.js step 2: the build script
DeployBuild == LastScript = "extract" /\ BuildStart

\* between two deploys: the model's config or the files next to it are
\* added, removed or replaced
EditSource ==
    /\ pc = "idle"
    /\ runsLeft > 0
    /\ LastScript = "build"
    /\ tree' \in DeployTrees
    /\ files' \in PipelineFiles
    /\ <<tree', files'>> # <<tree, files>>
    /\ UNCHANGED <<root, cfgFirst, rootExists, unreadable, dataFile, now, pc, extractVars,
                   runsLeft, exitCode, issued, trail, buildVars>>

NextDeploy ==
    \/ DeployExtract \/ AnalyzeStep \/ ProcessStep \/ WriteCatalog
    \/ DeployBuild \/ ImageStep \/ BuildFinish
    \/ EditSource

SpecDeploy == InitDeploy /\ [][NextDeploy]_vars

\* deploys during which the files next to the config may vanish between the
\* extraction and the build
InitLoss ==
    /\ root = <<Sep, "r">>
    /\ cfgFirst = TRUE
    /\ tree \in DeployTrees
    /\ files \in PipelineFiles
    /\ rootExists = TRUE
    /\ unreadable = {}
    /\ dataFile = Absent
    /\ InitRun(2 * MaxRuns)

\* after the extraction, before the build: the files of directory b are
\* removed; its images sub-directory stays
LoseImages ==
    /\ pc = "idle"
    /\ runsLeft > 0
    /\ LastScript = "extract"
    /\ files[<<SegB>>].own # <<>>
    /\ files' = [files EXCEPT ![<<SegB>>].own = <<>>]
    /\ UNCHANGED <<root, cfgFirst, tree, rootExists, unreadable, dataFile, now, pc, extractVars,
                   runsLeft, exitCode, issued, trail, buildVars>>

NextLoss == NextDeploy \/ LoseImages

SpecLoss == InitLoss /\ [][NextLoss]_vars

---------------------------------------------------------------------------
(* Vocabulary of the properties *)

\* every config file has been processed; `models` is what the catalog will hold
AllProcessed == pc = "write"

Range(seq) == {seq[i] : i \in 1..Len(seq)}

\* the config of directory d is classified Release / builds a model entry
IsReleaseDir(d) == tree[d] # NoFile /\ tree[d] # BadJson /\ isReleaseConfig(tree[d])
IsModelDir(d) ==
    /\ tree[d] # NoFile
    /\ tree[d] # BadJson
    /\ ~isReleaseConfig(tree[d])
    /\ isValidModelConfig(tree[d])

EntriesOf(d) == {e \in Range(models) : e.sourcePath = ConfigPath(root, d)}

\* d is D or lies below it, segment by segment; strictly below
Governs(D, d) == SegPrefix(D, d)
StrictlyBelow(D, d) == SegPrefix(D, d) /\ D # d

ScanValues(D, k) == {a.value : a \in {b \in Range(tree[D].scanAttrs) : b.key = k}}

\* the release configs whose directory governs d, by segments
GoverningReleaseDirs(d) == {D \in Dirs : IsReleaseDir(D) /\ Governs(D, d)}

---------------------------------------------------------------------------
(* C1 *)

\* C1 (inheritance): a release config governing D with release=R gives every
\* model strictly nested under D, at any depth, the top-level release R and
\* the attribute {release, R}; a model outside D gets neither from it.  Stated
\* where nothing else decides the value: D's config is the only release config
\* governing the model and the model has no release attribute of its own.
C1_Inheritance ==
    AllProcessed =>
        \A D \in Dirs, d \in Dirs :
            (/\ IsReleaseDir(D)
             /\ IsModelDir(d)
             /\ ~HasKey(tree[d].mattrs, "release")
             /\ GoverningReleaseDirs(d) \subseteq {D})
            => \A R \in ScanValues(D, "release") :
                 \A e \in EntriesOf(d) :
                    IF StrictlyBelow(D, d)
                    THEN /\ e.release = Present(R)
                         /\ Attr("release", R) \in Range(e.attributes)
                    ELSE /\ e.release = Absent
                         /\ ~HasKey(e.attributes, "release")

\* the same statement for scan roots that are not the filesystem root
C1_InheritanceBelowOrdinaryRoot == root # <<Sep>> => C1_Inheritance

---------------------------------------------------------------------------
(* C2 *)

\* C2 (whole segments): every release config in a model's applicable set
\* governs the model's directory segment by segment; a config in /b is never
\* applied to a model in /b-b.
C2_WholeSegments ==
    \A i \in 1..Len(applied) :
        \A r \in Range(applied[i].releases) :
            Governs(DirOfConfig(r), DirOfConfig(applied[i].model))

\* a model in /b-b was built while /b holds a release config
C2_Witness ==
    /\ AllProcessed
    /\ IsReleaseDir(<<SegB>>)
    /\ \E i \in 1..Len(applied) :
          /\ applied[i].model = ConfigPath(root, <<SegBB>>)
          /\ ConfigPath(root, <<SegB>>) \notin Range(applied[i].releases)

---------------------------------------------------------------------------
(* C3 *)

\* the attributes after the first n bring no key that occurs before them
AppendedKeysAreNew(seq, n) ==
    \A i \in (n + 1)..Len(seq) : \A j \in 1..(i - 1) : seq[j].key # seq[i].key

\* the tags after the first n bring no tag that occurs before them
AppendedTagsAreNew(seq, n) ==
    \A i \in (n + 1)..Len(seq) : \A j \in 1..(i - 1) : seq[j] # seq[i]

\* C3 (own values first): the entry's attributes start with the model's own
\* attributes, unchanged; an attribute follows them only if no entry with its
\* key came before, a tag only if it was not there yet.
C3_OwnValuesPrecede ==
    AllProcessed =>
        \A d \in Dirs : \A e \in EntriesOf(d) :
            LET own == tree[d] IN
            /\ Len(own.mattrs) <= Len(e.attributes)
            /\ SubSeq(e.attributes, 1, Len(own.mattrs)) = own.mattrs
            /\ AppendedKeysAreNew(e.attributes, Len(own.mattrs))
            /\ Len(own.mtags) <= Len(e.tags)
            /\ SubSeq(e.tags, 1, Len(own.mtags)) = own.mtags
            /\ AppendedTagsAreNew(e.tags, Len(own.mtags))

\* a model with its own release attribute and its own tag, under a release
\* config that defines release and that tag, got another attribute and tag
C3_Witness ==
    /\ AllProcessed
    /\ \E d \in Dirs : \E e \in EntriesOf(d) : \E D \in GoverningReleaseDirs(d) :
          /\ HasKey(tree[d].mattrs, "release")
          /\ ScanValues(D, "release") # {}
          /\ Range(tree[d].mtags) \cap Range(tree[D].scanTags) # {}
          /\ Len(e.attributes) > Len(tree[d].mattrs)
          /\ Len(e.tags) > Len(tree[d].mtags)
          /\ e.release # Absent

---------------------------------------------------------------------------
(* C4 *)

\* C4 (promoted field and attributes agree): an entry whose top-level release
\* (subscription) is V has the attribute {release (subscription), V}.
C4_TopLevelAgrees ==
    AllProcessed =>
        \A e \in Range(models) :
            /\ e.release # Absent => Attr("release", e.release[1]) \in Range(e.attributes)
            /\ e.subscription # Absent
                  => Attr("subscription", e.subscription[1]) \in Range(e.attributes)

---------------------------------------------------------------------------
(* C5 *)

HasReleaseAttr(c) ==
    IsDoc(c) /\ c.hasScan /\ \E a \in Range(c.scanAttrs) : isReleaseKey(a.key)

---------------------------------------------------------------------------
(* C6 *)

\* the two halves of the model test: a name that is given, a cover that is a
\* non-empty string
NameGiven(c) == c.hasMeta /\ c.name # JNull /\ c.name # JUndefined
CoverGiven(c) == c.hasMeta /\ c.cover.t = "str" /\ c.cover.s # <<>>

\* C6 (model test): a parsed config not classified Release gets a catalog
\* entry exactly when its name is non-null or its cover is a non-empty string;
\* one with a null or missing name and no such cover gets none, and is no error.
C6_ModelTest ==
    AllProcessed =>
        /\ \A d \in Dirs :
              (IsDoc(tree[d]) /\ ~IsReleaseDir(d)) =>
                  (EntriesOf(d) # {} <=> (NameGiven(tree[d]) \/ CoverGiven(tree[d])))
        /\ errorCount = Cardinality({d \in Dirs : tree[d] = BadJson})

---------------------------------------------------------------------------
(* C7 *)

\* C7 (identity stability): whenever extraction runs gave ids to the same
\* resolved name at the same relative config path, they gave the same id,
\* whichever run it was, whatever the scan root, the other configs, the
\* discovery order and the prior catalog were.
C7_IdStable ==
    \A a \in issued : \A b \in issued :
        (a.name = b.name /\ a.rel = b.rel) => a.id = b.id

\* two runs built the same name at the same relative path, under different
\* scan roots and at different positions of the discovery order, the later one
\* with a prior catalog in place
C7_Witness ==
    /\ AllProcessed
    /\ prior # Absent
    /\ \E a \in issued : \E b \in issued :
          /\ a.run < b.run
          /\ a.name = b.name /\ a.rel = b.rel
          /\ a.root # b.root
          /\ a.at # b.at

---------------------------------------------------------------------------
(* C8 *)

\* the string generateStableId digests for an entry
HashSourceOf(e) == e.name \o <<"-">> \o e.relativeSourcePath

\* C8 (id uniqueness): no two entries of the catalog being written have the
\* same id, and model configs at distinct relative paths never got the same id.
C8_IdsUnique ==
    /\ AllProcessed =>
          \A i \in 1..Len(models) : \A j \in 1..Len(models) :
              i # j => models[i].id # models[j].id
    /\ \A a \in issued : \A b \in issued : a.rel # b.rel => a.id # b.id

\* the catalog being written holds two entries whose name-path concatenations
\* are the same string
C8_Witness ==
    /\ AllProcessed
    /\ \E i \in 1..Len(models) : \E j \in 1..Len(models) :
          /\ i # j
          /\ models[i].relativeSourcePath # models[j].relativeSourcePath
          /\ HashSourceOf(models[i]) = HashSourceOf(models[j])

---------------------------------------------------------------------------
(* C9 *)

\* C9 (dateAdded set once): an entry rebuilt by an extraction run under an id
\* the prior catalog already holds keeps the prior entry's dateAdded.
C9_DateAddedPreserved ==
    (AllProcessed /\ prior # Absent) =>
        \A e \in Range(models) : \A p \in Range(prior[1].models) :
            e.id = p.id => e.dateAdded = p.dateAdded

---------------------------------------------------------------------------
(* C10 *)

\* the last four script runs were extraction, build, extraction, build
TwoPipelineRuns ==
    /\ Len(trail) >= 4
    /\ trail[Len(trail) - 3].script = "extract"
    /\ trail[Len(trail) - 2].script = "build"
    /\ trail[Len(trail) - 1].script = "extract"
    /\ trail[Len(trail)].script = "build"

\* a catalog without lastUpdated and the timing field of scanStats
Untimed(catalog) ==
    [models |-> catalog.models,
     totalCount |-> catalog.totalCount,
     scanStats |-> IF "scanStats" \in DOMAIN catalog
                   THEN Present([directoriesScanned |-> catalog.scanStats.directoriesScanned,
                                 totalFilesFound |-> catalog.scanStats.totalFilesFound,
                                 configFilesFound |-> catalog.scanStats.configFilesFound,
                                 releaseConfigsFound |-> catalog.scanStats.releaseConfigsFound])
                   ELSE Absent,
     isDefaultData |-> "isDefaultData" \in DOMAIN catalog]

\* C10 (idempotence): when the pipeline (extraction, then build) has run twice
\* in a row on the unchanged source tree, the catalog the second run leaves
\* equals the one the first run left, except for lastUpdated and the timing
\* field of scanStats.
C10_Idempotent ==
    TwoPipelineRuns =>
        Untimed(trail[Len(trail)].dataFile[1]) = Untimed(trail[Len(trail) - 2].dataFile[1])

\* an entry without its dateAdded
Undated(e) == [f \in DOMAIN e \ {"dateAdded"} |-> e[f]]

\* the second pipeline run changes nothing but the dates: same entries in the
\* same order, equal in every field other than dateAdded
C10_IdempotentButDateAdded ==
    TwoPipelineRuns =>
        LET c2 == Untimed(trail[Len(trail)].dataFile[1])
            c1 == Untimed(trail[Len(trail) - 2].dataFile[1])
        IN  /\ [c2 EXCEPT !.models = <<>>] = [c1 EXCEPT !.models = <<>>]
            /\ Len(c2.models) = Len(c1.models)
            /\ \A i \in 1..Len(c1.models) : Undated(c2.models[i]) = Undated(c1.models[i])

---------------------------------------------------------------------------
(* C11 *)

\* a build is about to end that follows extraction, build, extraction
SecondBuildEnds ==
    /\ pc = "finish"
    /\ Len(trail) >= 3
    /\ trail[Len(trail) - 2].script = "extract"
    /\ trail[Len(trail) - 1].script = "build"
    /\ trail[Len(trail)].script = "extract"

\* C11 (no redundant copies): the build of a second pipeline run on the
\* unchanged source tree, started from the catalog and cache of the first,
\* copies no image file.
C11_NoRedundantCopies == SecondBuildEnds => copiedCount = 0

\* the second build ends on a catalog whose model has an image the first
\* build copied
C11_Witness ==
    /\ SecondBuildEnds
    /\ rootExists
    /\ \E e \in Range(dataFile[1].models) :
          /\ e.image # Absent
          /\ StartsWith(e.image[1], S_imagesPrefix \o S_modelPrefix)
          /\ PathBasename(e.image[1]) \in publicImages

---------------------------------------------------------------------------
(* C12 *)

\* the data file as the running build found it: what the last script left
FoundByBuild == IF trail = <<>> THEN Absent ELSE trail[Len(trail)].dataFile

\* the model has a cache record with its hash and a published image that is
\* not the placeholder
IsCacheHit(m, cached) ==
    /\ MapHas(cached, m.id)
    /\ MapGet(cached, m.id).hash = calculateModelHash(m)
    /\ m.image # Absent
    /\ StartsWith(m.image[1], S_imagesPrefix)
    /\ m.image[1] # PlaceholderImage

\* C12 (cache skip): a model whose hash equals the cached hash and whose image
\* is a published path other than the placeholder is not among newModels, and
\* the build leaves its image in the catalog and its cache record as they were.
C12_CacheSkip ==
    (pc = "finish" /\ FoundByBuild # Absent /\ cacheFile # Absent) =>
        LET old == FoundByBuild[1].models
            cached == cacheFile[1].models
        IN  \A i \in 1..Len(old) :
                IsCacheHit(old[i], cached) =>
                    /\ i \notin Range(newModels)
                    /\ data[1].models[i].image = old[i].image
                    /\ dataFile[1].models[i].image = old[i].image
                    /\ MapGet(buildCache.models, old[i].id) = MapGet(cached, old[i].id)

\* a build that skipped one model and processed another is about to end
C12_Witness ==
    /\ pc = "finish"
    /\ FoundByBuild # Absent
    /\ cacheFile # Absent
    /\ newModels # <<>>
    /\ \E i \in 1..Len(FoundByBuild[1].models) :
          IsCacheHit(FoundByBuild[1].models[i], cacheFile[1].models)

---------------------------------------------------------------------------
(* C13 *)

\* the build of a deploy is about to end; the source tree is as the deploy's
\* extraction found it
DeployBuildEnds == pc = "finish" /\ LastScript = "extract"

\* the directory of the config file an entry was built from, if the tree has it
SourceDirs(e) ==
    IF "sourcePath" \in DOMAIN e
    THEN {d \in Dirs : ConfigPath(root, d) = e.sourcePath /\ IsModelDir(d)}
    ELSE {}

\* C13 (placeholder retry): when a deploy (extraction, then build) ends, no
\* model whose source directory holds an image the resolver finds is left
\* with the placeholder.
C13_PlaceholderRetried ==
    DeployBuildEnds =>
        \A e \in Range(dataFile[1].models) : \A d \in SourceDirs(e) :
            findCoverImage(d, Absent) # Absent => e.image # Present(PlaceholderImage)

---------------------------------------------------------------------------
(* C14 *)

\* a build has ended and no script has started since
BuildEnded == pc = "idle" /\ LastScript = "build"

\* C14 (materialized image shape): after a build has ended, every image value
\* of the catalog starts with http or with /images/.
C14_MaterializedShape ==
    BuildEnded =>
        \A e \in Range(dataFile[1].models) :
            e.image # Absent =>
                (StartsWith(e.image[1], S_http) \/ StartsWith(e.image[1], S_imagesPrefix))

\* the build ended on a model whose extraction had found a source image that
\* was gone at the copy; the catalog holds the published copy of another file
C14_Witness ==
    /\ BuildEnded
    /\ Len(trail) >= 2
    /\ trail[Len(trail) - 1].dataFile # Absent
    /\ \E i \in 1..Len(dataFile[1].models) :
          LET e == dataFile[1].models[i]
              found == trail[Len(trail) - 1].dataFile[1].models
          IN  /\ i <= Len(found)
              /\ IsSourceImage(found[i].image)
              /\ PathKind(found[i].image[1]) = "none"
              /\ e.image # Absent
              /\ StartsWith(e.image[1], S_imagesPrefix \o S_modelPrefix)

---------------------------------------------------------------------------
(* C15 *)

\* C15 (placeholder substitution): after a build has ended, every model of
\* the catalog has an image value; where nothing was resolved or copied it is
\* the placeholder, never a missing image.
C15_EveryModelHasImage ==
    BuildEnded =>
        \A e \in Range(dataFile[1].models) : e.image # Absent /\ e.image[1] # <<>>

---------------------------------------------------------------------------
(* C20 *)

\* C20 (the cache is safe to delete): whenever a build can start, the catalog
\* it leaves with the cache file as it is equals the catalog it leaves with
\* the cache file deleted.
C20_CacheSafeToDelete ==
    (pc = "idle" /\ dataFile # Absent) =>
        CatalogAfterBuild(loadBuildCache, now + 1) = CatalogAfterBuild(EmptyCache, now + 1)

\* CatalogAfterBuild is the run: a build starts on the data and the newModels
\* CatalogAfterBuild starts on, and every iteration of the image loop leaves
\* what the remaining iterations compute unchanged
CatalogAfterBuildIsTheRun ==
    [][/\ BuildStart =>
            (IF newModels' # <<>>
             THEN processModelImagesFrom(data'[1], newModels', 1)
             ELSE data'[1]) = CatalogAfterBuild(loadBuildCache, now')
       /\ ImageStep =>
            processModelImagesFrom(data'[1], newModels, bidx' + 1)
                = processModelImagesFrom(data[1], newModels, bidx + 1)]_vars

\* the same statement for the catalogs in which every model has an image
C20_CacheSafeWhenImagesPresent ==
    (/\ pc = "idle"
     /\ dataFile # Absent
     /\ \A e \in Range(dataFile[1].models) : e.image # Absent)
    => CatalogAfterBuild(loadBuildCache, now + 1) = CatalogAfterBuild(EmptyCache, now + 1)

---------------------------------------------------------------------------
(* C16 *)

\* longest directory listing drawn for the resolver
MaxListing == 2

S_FnPNG == <<"F","n",".","P","N","G">>
S_xPreviewPng == <<"x","p","r","e","v","i","e","w",".","p","n","g">>
S_thumbnailJpg == <<"t","h","u","m","b","n","a","i","l",".","j","p","g">>
S_cJpg == <<"c",".","j","p","g">>
S_cGif == <<"c",".","g","i","f">>
S_nTxt == <<"n",".","t","x","t">>
S_c == <<"c">>
S_zJpg == <<"z",".","j","p","g">>

\* names of the files a model directory may hold
ResolveNames ==
    {S_FnPNG, S_xPreviewPng, S_coverPng, S_thumbnailJpg, S_cJpg, S_cGif, S_nTxt, S_c}

\* readdirSync results: up to MaxListing distinct names in any order
Listings(N, n) ==
    UNION {{l \in [1..k -> N] : \A i, j \in 1..k : l[i] = l[j] => i = j} : k \in 0..n}

\* model directory b with a listing and image sub-directories images and
\* thumbnails that are missing, empty, or hold files
ResolveFiles ==
    {[NoFiles EXCEPT ![<<SegB>>] =
          [own |-> o,
           sub |-> [k \in 1..Len(imageDirs) |->
                       IF k = 1 THEN s1 ELSE IF k = 2 THEN s2 ELSE Absent]]] :
        o \in Listings(ResolveNames, MaxListing),
        s1 \in {Absent, Present(<<>>), Present(<<S_yGif>>)},
        s2 \in {Absent, Present(<<S_nTxt, S_xJpg>>)}}

\* modelmeta.cover: none, a name without extension, names with extension
\* (present or missing in the directory), a value that is no string
ResolveCovers == {JNull, JStr(S_c), JStr(S_cJpg), JStr(S_nTxt), JStr(S_zJpg), JTrue}

InitResolve ==
    /\ root = <<Sep, "r">>
    /\ cfgFirst = TRUE
    /\ tree \in TreesIn({<<SegB>>}, {[BaseDoc EXCEPT !.cover = c] : c \in ResolveCovers})
    /\ tree[<<SegB>>] # NoFile
    /\ files \in ResolveFiles
    /\ rootExists = TRUE
    /\ unreadable = {}
    /\ dataFile = Absent
    /\ InitRun(1)

SpecResolve == InitResolve /\ [][ExtractNext]_vars

\* the file name ends with the extension, letter case ignored
HasExt(f, e) == Len(f) > Len(e) /\ EndsWith(ToLowerCase(f), e)
HasImageExt(f) == \E i \in 1..Len(imageExtensions) : HasExt(f, imageExtensions[i])

\* the model directory of the resolver runs and what it holds
ResolveDir == <<SegB>>
ResolveListing == Range(files[ResolveDir].own)
ResolveCover ==
    IF tree[ResolveDir].cover.t = "str" /\ tree[ResolveDir].cover.s # <<>>
    THEN Present(tree[ResolveDir].cover.s) ELSE Absent
ResolvePath(name) == PathJoin(AbsDir(root, ResolveDir), name)

\* the names in the model directory that the configured cover stands for, in
\* the order of level 3: the name itself, then the name with each image
\* extension when it has none
CoverCandidates ==
    IF ResolveCover = Absent THEN <<>>
    ELSE <<ResolveCover[1]>> \o
         (IF \E i \in 1..Len(ResolveCover[1]) : ResolveCover[1][i] = "."
          THEN <<>>
          ELSE [i \in 1..Len(imageExtensions) |-> ResolveCover[1] \o imageExtensions[i]])

\* the paths that match at each of the five levels
Level(n) ==
    CASE n = 1 -> {ResolvePath(f) : f \in {g \in ResolveListing :
                       /\ HasExt(g, S_png)
                       /\ (StartsWith(ToLowerCase(g), S_fn) \/ Includes(ToLowerCase(g), S_preview))}}
      [] n = 2 -> {ResolvePath(f) : f \in {g \in ResolveListing : HasExt(g, S_png)}}
      [] n = 3 -> LET I == {i \in 1..Len(CoverCandidates) : CoverCandidates[i] \in ResolveListing}
                  IN  IF I = {} THEN {}
                      ELSE {ResolvePath(CoverCandidates[CHOOSE i \in I : \A j \in I : i <= j])}
      [] n = 4 -> {ResolvePath(f) : f \in {g \in ResolveListing : HasImageExt(g)}}
      [] n = 5 -> LET K == {k \in 1..Len(imageDirs) :
                               /\ files[ResolveDir].sub[k] # Absent
                               /\ \E g \in Range(files[ResolveDir].sub[k][1]) : HasImageExt(g)}
                  IN  IF K = {} THEN {}
                      ELSE LET k == CHOOSE k \in K : \A j \in K : k <= j
                           IN  {PathJoin(ResolvePath(imageDirs[k]), g) :
                                   g \in {h \in Range(files[ResolveDir].sub[k][1]) : HasImageExt(h)}}

\* the extraction has built the entry of the model directory
Resolved == pc = "write" /\ Len(models) = 1

C16_ThumbnailOnly ==
    (/\ Resolved
     /\ files[ResolveDir].own = <<S_thumbnailJpg>>
     /\ tree[ResolveDir].cover = JNull)
    => models[1].image = Present(ResolvePath(S_thumbnailJpg))

---------------------------------------------------------------------------
(* C17 *)

\* configs of the trees with unparsable files: models, a model named after
\* its directory, a release config, a file that JSON.parse rejects
IsolateDocs ==
    {BaseDoc,
     [BaseDoc EXCEPT !.name = JNull, !.cover = JStr(S_coverPng)],
     [BaseDoc EXCEPT !.name = JNull, !.scanAttrs = <<Attr("release", "R1")>>],
     BadJson}

BadDirs == {d \in Dirs : tree[d] = BadJson}

InitIsolate ==
    /\ root = <<Sep, "r">>
    /\ cfgFirst \in BOOLEAN
    /\ tree \in Trees(IsolateDocs)
    /\ files \in PipelineFiles
    /\ rootExists = TRUE
    /\ unreadable = {}
    /\ dataFile = Absent
    /\ InitRun(2)

\* after the first run the unparsable files are removed from the tree
RemoveBad ==
    /\ pc = "idle"
    /\ Len(trail) = 1
    /\ BadDirs # {}
    /\ tree' = [d \in Dirs |-> IF tree[d] = BadJson THEN NoFile ELSE tree[d]]
    /\ UNCHANGED <<root, cfgFirst, files, rootExists, unreadable, dataFile, now, pc, extractVars,
                   runsLeft, exitCode, issued, trail, buildVars>>

SpecIsolate == InitIsolate /\ [][ExtractNext \/ RemoveBad]_vars

\* the entries of a catalog without the time of their creation
UndatedModels(catalog) == [i \in 1..Len(catalog.models) |-> Undated(catalog.models[i])]

\* the first run has ended
FirstRunEnded == pc = "idle" /\ Len(trail) = 1

\* the second run has ended and found fewer config files than the first: the
\* unparsable ones were removed in between
RerunWithoutBad ==
    /\ pc = "idle"
    /\ Len(trail) = 2
    /\ trail[1].dataFile # Absent
    /\ dataFile # Absent
    /\ dataFile[1].scanStats.configFilesFound < trail[1].dataFile[1].scanStats.configFilesFound

\* C17 (per-item isolation): a run over a tree with unparsable config files
\* ends normally with a catalog that holds no entry for an unparsable file,
\* and its entries are, in the same order, those of a run over the same tree
\* without the unparsable files (the time of creation aside).
C17_PerItemIsolation ==
    /\ FirstRunEnded =>
          /\ exitCode = 0
          /\ dataFile # Absent
          /\ \A e \in Range(dataFile[1].models) :
                \A d \in BadDirs : e.sourcePath # ConfigPath(root, d)
    /\ RerunWithoutBad =>
          UndatedModels(dataFile[1]) = UndatedModels(trail[1].dataFile[1])

\* a run over a tree with an unparsable file and a model under a release
\* config, and the run over the tree without the unparsable file
C17_Witness ==
    /\ RerunWithoutBad
    /\ Len(dataFile[1].models) >= 1
    /\ \E e \in Range(dataFile[1].models) : e.release # Absent

---------------------------------------------------------------------------
(* C18 *)

\* trees for the crawl: config files and entries of that name that are no
\* regular files, in any directory; any set of directories unreadable
InitCrawl ==
    /\ root \in Roots
    /\ cfgFirst \in BOOLEAN
    /\ tree \in Trees({BaseDoc, NotRegular})
    /\ files = NoFiles
    /\ rootExists = TRUE
    /\ unreadable \in SUBSET Dirs
    /\ dataFile = Absent
    /\ InitRun(1)

SpecCrawl == InitCrawl /\ [][ExtractNext]_vars

\* the crawl of the run has returned
Crawled == pc # "idle" \/ trail # <<>>

\* the directory and every directory above it, the root included, can be read
ReadableFromRoot(d) == \A k \in 0..Len(d) : SubSeq(d, 1, k) \notin unreadable

IsRegularConfig(d) == tree[d] # NoFile /\ tree[d] # NotRegular

\* C18 (crawler completeness under partial failure): the crawl returns, each
\* once, exactly the regular files named config.orynt3d of the directories
\* that can be read along with all directories above them; an unreadable
\* directory takes away nothing else, and the run goes on to write its catalog.
C18_CrawlerCompleteness ==
    Crawled =>
        /\ Range(configFiles)
               = {ConfigPath(root, d) : d \in {e \in Dirs : IsRegularConfig(e) /\ ReadableFromRoot(e)}}
        /\ \A i, j \in 1..Len(configFiles) : configFiles[i] = configFiles[j] => i = j
        /\ (pc = "idle" => exitCode = 0 /\ dataFile # Absent)

\* directory b cannot be read; the config files of the root and of b's
\* sibling b-b were found, that of b was not, and the run has ended
C18_Witness ==
    /\ pc = "idle"
    /\ trail # <<>>
    /\ unreadable = {<<SegB>>}
    /\ IsRegularConfig(<<>>) /\ IsRegularConfig(<<SegB>>) /\ IsRegularConfig(<<SegBB>>)
    /\ Range(configFiles) = {ConfigPath(root, <<>>), ConfigPath(root, <<SegBB>>)}
    /\ Len(dataFile[1].models) = 2

---------------------------------------------------------------------------
(* C19 *)

\* the deploy pipeline over a scan root that comes and goes (the default root
\* is a network share)
InitRootLoss ==
    /\ root = <<Sep, "r">>
    /\ cfgFirst = TRUE
    /\ tree \in DeployTrees
    /\ files \in PipelineFiles
    /\ rootExists \in BOOLEAN
    /\ unreadable = {}
    /\ dataFile = Absent
    /\ InitRun(2 * MaxRuns)

\* between two scripts the scan root vanishes or comes back
ToggleRoot ==
    /\ pc = "idle"
    /\ runsLeft > 0
    /\ rootExists' = ~rootExists
    /\ UNCHANGED <<root, cfgFirst, tree, files, unreadable, dataFile, now, pc, extractVars,
                   runsLeft, exitCode, issued, trail, buildVars>>

NextRootLoss == ExtractNext \/ BuildNext \/ ToggleRoot

SpecRootLoss == InitRootLoss /\ [][NextRootLoss]_vars

\* a step that starts a run of the extraction script
ExtractionStarts ==
    /\ pc = "idle"
    /\ runsLeft' = runsLeft - 1
    /\ pc' \notin {"images", "finish"}

\* C19 (fatal on missing root): an extraction run started while the scan root
\* does not exist ends at once with exit code 1, having crawled nothing, and
\* leaves the catalog file as it was.
C19_FatalOnMissingRoot ==
    [][(ExtractionStarts /\ ~rootExists) =>
           /\ pc' = "idle"
           /\ exitCode' = 1
           /\ configFiles' = <<>>
           /\ dataFile' = dataFile
           /\ trail' = Append(trail, [script |-> "extract", exitCode |-> 1,
                                      dataFile |-> dataFile])]_vars

\* the scan root went missing after an extraction and a build; the next
\* extraction failed and the catalog still holds the model
C19_Witness ==
    /\ pc = "idle"
    /\ ~rootExists
    /\ Len(trail) >= 3
    /\ trail[Len(trail)].script = "extract"
    /\ trail[Len(trail)].exitCode = 1
    /\ dataFile # Absent
    /\ Len(dataFile[1].models) >= 1
    /\ dataFile = trail[Len(trail) - 1].dataFile

\* no pass over the tree is under way while the root is missing, and every
\* failed extraction left the catalog of the script before it
C19_NoScanCatalogKept ==
    /\ pc \in {"analyze", "process", "write"} => rootExists
    /\ \A i \in 1..Len(trail) :
          (trail[i].script = "extract" /\ trail[i].exitCode = 1) =>
              trail[i].dataFile = (IF i = 1 THEN Absent ELSE trail[i - 1].dataFile)

---------------------------------------------------------------------------
(* C21 *)

\* the entry has the field and its value is an array
HasArray(e, f) == f \in DOMAIN e /\ DOMAIN e[f] = 1..Len(e[f])

\* C21 (catalog shape for the UI): in every catalog file, the default one of
\* the build included, every entry has tags, collections and attributes, each
\* an array.
C21_CatalogShape ==
    dataFile # Absent =>
        \A e \in Range(dataFile[1].models) :
            HasArray(e, "tags") /\ HasArray(e, "collections") /\ HasArray(e, "attributes")

\* the same for the catalogs that are not the default one of the build
C21_ExtractedShape ==
    (dataFile # Absent /\ "isDefaultData" \notin DOMAIN dataFile[1]) =>
        \A e \in Range(dataFile[1].models) :
            HasArray(e, "tags") /\ HasArray(e, "collections") /\ HasArray(e, "attributes")

---------------------------------------------------------------------------
(* C22 *)

\* two extraction runs over one tree; in between the order in which a
\* directory lists its own config file and its sub-directories is reversed
InitOrder ==
    /\ root \in Roots
    /\ cfgFirst = TRUE
    /\ tree \in Trees(InheritDocs)
    /\ files = NoFiles
    /\ rootExists = TRUE
    /\ unreadable = {}
    /\ dataFile = Absent
    /\ InitRun(2)

FlipOrder ==
    /\ pc = "idle"
    /\ Len(trail) = 1
    /\ runsLeft > 0
    /\ cfgFirst
    /\ cfgFirst' = FALSE
    /\ UNCHANGED <<root, tree, files, rootExists, unreadable, dataFile, now, pc, extractVars,
                   runsLeft, exitCode, issued, trail, buildVars>>

SpecOrder == InitOrder /\ [][ExtractNext \/ FlipOrder]_vars

\* the second run has ended; it met each directory's config after those of
\* its sub-directories, the first run before them
Rescanned == pc = "idle" /\ Len(trail) = 2 /\ ~cfgFirst

AttrKeys(e) == {a.key : a \in Range(e.attributes)}

\* C22 (two-pass ordering): when the second pass starts, phase 1 has recorded
\* every release config of the tree; and a model inherits the same from its
\* governing release configs whether they come before or after its own config
\* in the scan: the same tags, attribute keys, and - with one governing
\* release config - the same attributes, tags, release and subscription.
C22_TwoPassOrdering ==
    /\ pc = "process" =>
          {r.path : r \in Range(releaseConfigs)}
              = {ConfigPath(root, D) : D \in {E \in Dirs : IsReleaseDir(E)}}
    /\ Rescanned =>
          /\ Len(dataFile[1].models) = Len(trail[1].dataFile[1].models)
          /\ \A e \in Range(dataFile[1].models) :
                \E f \in Range(trail[1].dataFile[1].models) :
                    /\ f.sourcePath = e.sourcePath
                    /\ Range(f.tags) = Range(e.tags)
                    /\ AttrKeys(f) = AttrKeys(e)
                    /\ Cardinality(GoverningReleaseDirs(DirOfConfig(e.sourcePath))) <= 1
                          => Undated(f) = Undated(e)

\* a model that inherited a release from a release config listed after the
\* model's own config in the second run (and before it in the first)
C22_Witness ==
    /\ Rescanned
    /\ \E e \in Range(dataFile[1].models) :
          /\ e.release # Absent
          /\ \E i, j \in 1..Len(configFiles) :
                /\ i < j
                /\ configFiles[i] = e.sourcePath
                /\ \E r \in Range(releaseConfigs) :
                      r.path = configFiles[j] /\ IsApplicable(PathDirname(e.sourcePath), r.dirPath)

---------------------------------------------------------------------------
(* C23 *)

\* position of the config file of directory D in the discovered list
ScanPos(D) == CHOOSE i \in 1..Len(configFiles) : configFiles[i] = ConfigPath(root, D)

\* the governing release configs of d that define the key k
GoverningWithKey(d, k) == {D \in GoverningReleaseDirs(d) : HasKey(tree[D].scanAttrs, k)}

\* the value of the last attribute with key k of the release config of D
LastValue(D, k) ==
    LET I == {i \in 1..Len(tree[D].scanAttrs) : tree[D].scanAttrs[i].key = k}
    IN  tree[D].scanAttrs[CHOOSE i \in I : \A j \in I : j <= i].value

\* C23 (multiple applicable releases): every release config governing a
\* model's directory is merged into the entry - its tags and attribute keys
\* are in the entry - and the top-level release is the value given by the
\* governing release config with a release key that comes last in the
\* discovered list.
C23_AllReleasesMerged ==
    AllProcessed =>
        \A d \in Dirs :
            IsModelDir(d) =>
                \A e \in EntriesOf(d) :
                    /\ \A D \in GoverningReleaseDirs(d) :
                          /\ Range(tree[D].scanTags) \subseteq Range(e.tags)
                          /\ {a.key : a \in Range(tree[D].scanAttrs)} \subseteq AttrKeys(e)
                    /\ LET G == GoverningWithKey(d, "release")
                       IN  G # {} =>
                             e.release = Present(LastValue(CHOOSE D \in G :
                                                              \A E \in G : ScanPos(E) <= ScanPos(D),
                                                           "release"))

\* the same statement for scan roots that are not the filesystem root
C23_BelowOrdinaryRoot == root # <<Sep>> => C23_AllReleasesMerged

---------------------------------------------------------------------------
(* C24 *)

\* categorizeModels has run and no image has been processed yet
JustCategorized == (pc = "images" /\ bidx = 0) \/ (pc = "finish" /\ newModels = <<>>)

\* the image value is a published path or an absolute URL
IsPublishShaped(image) ==
    image # Absent /\ (StartsWith(image[1], S_imagesPrefix) \/ StartsWith(image[1], S_http))

\* the four conditions of the changed-set rule, against the cache file
MustBeChanged(m, cached) ==
    \/ ~MapHas(cached, m.id)
    \/ MapGet(cached, m.id).hash # calculateModelHash(m)
    \/ ~IsPublishShaped(m.image)
    \/ m.image = Present(PlaceholderImage)

\* C24 (changed-set rule): categorizeModels puts a model among the changed
\* ones, once, exactly when it has no cache entry for its id, or its hash
\* differs from the cached one, or its image is not a published path or URL,
\* or its image is the placeholder; every other model is unchanged.
C24_ChangedSetRule ==
    JustCategorized =>
        /\ \A i, j \in 1..Len(newModels) : newModels[i] = newModels[j] => i = j
        /\ Range(newModels) \subseteq 1..Len(data[1].models)
        /\ \A i \in 1..Len(data[1].models) :
              i \in Range(newModels) <=> MustBeChanged(data[1].models[i], loadBuildCache.models)

\* the same rule for the models that have an image value
C24_ChangedSetOfModelsWithImage ==
    JustCategorized =>
        \A i \in 1..Len(data[1].models) :
            data[1].models[i].image # Absent =>
                (i \in Range(newModels) <=> MustBeChanged(data[1].models[i], loadBuildCache.models))

---------------------------------------------------------------------------
(* C25 *)

\* every entry of the catalog file as it is and as the ended scripts left it
CatalogEntries ==
    UNION ({IF dataFile = Absent THEN {} ELSE Range(dataFile[1].models)}
           \cup {IF trail[i].dataFile = Absent THEN {} ELSE Range(trail[i].dataFile[1].models) :
                    i \in 1..Len(trail)})

\* an entry without its image and its time of creation
WithoutImageAndDate(e) == [f \in DOMAIN e \ {"image", "dateAdded"} |-> e[f]]

\* the build categorizes the catalog of an extraction that followed a build
RebuildCategorized ==
    /\ JustCategorized
    /\ Len(trail) >= 2
    /\ trail[Len(trail)].script = "extract"
    /\ trail[Len(trail) - 1].script = "build"
    /\ trail[Len(trail) - 1].dataFile # Absent

\* C25 (no self-invalidation): entries that differ only in image or dateAdded
\* have the same hash; and a model that the build finds differing only in
\* image or dateAdded from an entry the build before left, its image a
\* published one, is not among the changed models.
C25_NoSelfInvalidation ==
    /\ \A e, f \in CatalogEntries :
          WithoutImageAndDate(e) = WithoutImageAndDate(f)
              => calculateModelHash(e) = calculateModelHash(f)
    /\ RebuildCategorized =>
          \A i \in 1..Len(data[1].models) :
              LET m == data[1].models[i]
              IN  (/\ \E f \in Range(trail[Len(trail) - 1].dataFile[1].models) :
                         WithoutImageAndDate(f) = WithoutImageAndDate(m)
                   /\ IsPublishShaped(m.image)
                   /\ m.image # Present(PlaceholderImage))
                  => i \notin Range(newModels)

\* the second build skips a model that the second extraction gave a new
\* dateAdded and whose image the first build had rewritten from a source path
C25_Witness ==
    /\ RebuildCategorized
    /\ Len(trail) >= 3
    /\ trail[Len(trail) - 2].dataFile # Absent
    /\ \E i \in 1..Len(data[1].models) :
          LET m == data[1].models[i]
          IN  /\ i \notin Range(newModels)
              /\ IsPublishShaped(m.image)
              /\ \E f \in Range(trail[Len(trail) - 1].dataFile[1].models) :
                    /\ f.id = m.id
                    /\ f.dateAdded # m.dateAdded
                    /\ f.image = m.image
              /\ \E g \in Range(trail[Len(trail) - 2].dataFile[1].models) :
                    /\ g.id = m.id
                    /\ IsSourceImage(g.image)

---------------------------------------------------------------------------
(* C26 *)

\* a deploy over the model of directory b, whose only image z.jpg the
\* extraction records
InitFallback ==
    /\ root = <<Sep, "r">>
    /\ cfgFirst = TRUE
    /\ tree = [d \in Dirs |-> IF d = ResolveDir THEN BaseDoc ELSE NoFile]
    /\ files = [NoFiles EXCEPT ![ResolveDir].own = <<S_zJpg>>]
    /\ rootExists = TRUE
    /\ unreadable = {}
    /\ dataFile = Absent
    /\ InitRun(2)

\* between the extraction and the build the directory gets another content,
\* without the recorded image
ReplaceFiles ==
    /\ pc = "idle"
    /\ runsLeft > 0
    /\ LastScript = "extract"
    /\ files[ResolveDir].own = <<S_zJpg>>
    /\ files' \in ResolveFiles
    /\ UNCHANGED <<root, cfgFirst, tree, rootExists, unreadable, dataFile, now, pc,
                   extractVars, runsLeft, exitCode, issued, trail, buildVars>>

NextFallback ==
    \/ DeployExtract \/ AnalyzeStep \/ ProcessStep \/ WriteCatalog
    \/ DeployBuild \/ ImageStep \/ BuildFinish
    \/ ReplaceFiles

SpecFallback == InitFallback /\ [][NextFallback]_vars

\* the build has processed the model, whose recorded source image was gone
FallbackTaken ==
    /\ pc = "finish"
    /\ FoundByBuild # Absent
    /\ Len(FoundByBuild[1].models) = 1
    /\ IsSourceImage(FoundByBuild[1].models[1].image)
    /\ PathKind(FoundByBuild[1].models[1].image[1]) = "none"

\* C26 (the fallback is the image resolver): when the recorded source image
\* is gone, the build publishes the file the image resolver returns for the
\* model's directory, and sets the placeholder when the resolver returns none.
C26_FallbackIsResolver ==
    FallbackTaken =>
        LET m == dataFile[1].models[1]
            resolved == findCoverImage(DirOfConfig(m.sourcePath), Absent)
        IN  m.image = IF resolved = Absent THEN Present(PlaceholderImage)
                      ELSE Present(S_imagesPrefix \o PublishedName(m, resolved[1]))

\* the fallback ends with the placeholder exactly when the resolver finds nothing
C26_SameTotalFailure ==
    FallbackTaken =>
        (dataFile[1].models[1].image = Present(PlaceholderImage)
            <=> findCoverImage(DirOfConfig(dataFile[1].models[1].sourcePath), Absent) = Absent)

---------------------------------------------------------------------------
(* C27 *)

\* extraction runs over trees of models, release configs and unparsable
\* files, with a scan root that comes and goes between the runs
InitPartial ==
    /\ root = <<Sep, "r">>
    /\ cfgFirst \in BOOLEAN
    /\ tree \in TreesIn({<<>>, <<SegB>>, <<SegB, SegB>>},
                        {BaseDoc,
                         [BaseDoc EXCEPT !.name = JNull, !.scanAttrs = <<Attr("release", "R1")>>],
                         BadJson})
    /\ files = NoFiles
    /\ rootExists \in BOOLEAN
    /\ unreadable = {}
    /\ dataFile = Absent
    /\ InitRun(MaxRuns)

SpecPartial == InitPartial /\ [][ExtractNext \/ ToggleRoot]_vars

\* C27 (no partial catalog): the only step of an extraction run that changes
\* the catalog file is the one that ends it, after the second pass is over;
\* it writes the entries of all model configs with totalCount their number;
\* every run that reaches the write makes it, and a run that aborts appends
\* its failure and leaves the catalog file as it was.
C27_NoPartialCatalog ==
    [][/\ dataFile' # dataFile =>
             /\ pc = "write" /\ pc' = "idle"
             /\ dataFile'[1].models = models
             /\ Len(models) = Cardinality({d \in Dirs : IsModelDir(d)})
             /\ dataFile'[1].totalCount = Len(dataFile'[1].models)
       /\ pc = "write" => (pc' = "idle" /\ exitCode' = 0 /\ dataFile' # dataFile)
       /\ (Len(trail') > Len(trail) /\ exitCode' = 1) => dataFile' = dataFile]_vars

\* a run wrote a catalog of two entries, skipping a third config; the next
\* run aborted and the catalog is still that of the first
C27_Witness ==
    /\ pc = "idle"
    /\ Len(trail) = 2
    /\ trail[1].exitCode = 0
    /\ trail[2].exitCode = 1
    /\ dataFile = trail[1].dataFile
    /\ Len(dataFile[1].models) = 2
    /\ dataFile[1].totalCount = 2
    /\ dataFile[1].scanStats.configFilesFound = 3

\* the catalog file holds what the run found until the run writes
C27_CatalogUntouchedDuringRun ==
    pc \in {"analyze", "process", "write"} => dataFile = prior

---------------------------------------------------------------------------
(* C28 *)

\* the builds that have ended
BuildsEnded == Cardinality({i \in 1..Len(trail) : trail[i].script = "build"})

\* C28 (embedded data stays current): after a build has ended, the data
\* embedded in next.config.js is the catalog that build left, on the first
\* build and on every later one.
C28_EmbeddedDataCurrent ==
    BuildEnded => nextConfig = Present(dataFile[1])

\* the same for the first build, which finds the placeholder in the file
C28_FirstBuildEmbeds ==
    (BuildEnded /\ BuildsEnded = 1) => nextConfig = Present(dataFile[1])

---------------------------------------------------------------------------
(* C29 *)

\* configs of the model 'a' of directory b: other cover, tags, notes, release
\* attribute of its own, all under the same name
StickyDocs ==
    {BaseDoc,
     [BaseDoc EXCEPT !.cover = JStr(S_xJpg)],
     [BaseDoc EXCEPT !.mtags = <<"t1">>, !.notes = "n"],
     [BaseDoc EXCEPT !.mattrs = <<Attr("painted", "yes")>>]}

StickyTrees == TreesIn({<<SegB>>}, StickyDocs)

InitSticky ==
    /\ root = <<Sep, "r">>
    /\ cfgFirst = TRUE
    /\ tree \in StickyTrees
    /\ files \in PipelineFiles
    /\ rootExists = TRUE
    /\ unreadable = {}
    /\ dataFile = Absent
    /\ InitRun(2 * MaxRuns)

\* between two scripts the config and the files of the directory change
ChangeModel ==
    /\ pc = "idle"
    /\ runsLeft > 0
    /\ trail # <<>>
    /\ tree' \in StickyTrees
    /\ files' \in PipelineFiles
    /\ <<tree', files'>> # <<tree, files>>
    /\ UNCHANGED <<root, cfgFirst, rootExists, unreadable, dataFile, now, pc, extractVars,
                   runsLeft, exitCode, issued, trail, buildVars>>

NextSticky ==
    \/ DeployExtract \/ AnalyzeStep \/ ProcessStep \/ WriteCatalog
    \/ DeployBuild \/ ImageStep \/ BuildFinish
    \/ ChangeModel

SpecSticky == InitSticky /\ [][NextSticky]_vars

\* a published image or URL other than the placeholder
IsSticky(image) == IsPublishShaped(image) /\ image # Present(PlaceholderImage)

EntriesIn(file) == IF file = Absent THEN {} ELSE Range(file[1].models)

\* C29 (published images are sticky): no step of an extraction or a build
\* changes the image of an entry that holds a published image or URL other
\* than the placeholder and whose id is still in the catalog, and the build's
\* loop copies nothing for such a model - whatever config and files the
\* model's directory has by then.
C29_PublishedImagesSticky ==
    [][/\ \A e \in EntriesIn(dataFile), f \in EntriesIn(dataFile') :
             (IsSticky(e.image) /\ f.id = e.id) => f.image = e.image
       /\ (pc = "images" /\ IsSticky(data[1].models[newModels[bidx + 1]].image)) =>
             /\ publicImages' = publicImages
             /\ copiedCount' = copiedCount
             /\ data' = data]_vars

\* the second deploy has ended on a model whose fields changed and whose
\* directory lost its images after the first deploy; the entry still has the
\* image the first build published
C29_Witness ==
    /\ BuildEnded
    /\ Len(trail) = 4
    /\ files[<<SegB>>].own = <<>>
    /\ \E e \in EntriesIn(trail[2].dataFile), f \in EntriesIn(dataFile) :
          /\ f.id = e.id
          /\ IsSticky(e.image)
          /\ StartsWith(e.image[1], S_imagesPrefix \o S_modelPrefix)
          /\ f.image = e.image
          /\ calculateModelHash(f) # calculateModelHash(e)

---------------------------------------------------------------------------
(* C30 *)

MapKeys(m) == {m[i].key : i \in 1..Len(m)}

CatalogIdsUnique(file) ==
    file # Absent =>
        \A i, j \in 1..Len(file[1].models) :
            file[1].models[i].id = file[1].models[j].id => i = j

\* the saved cache has, for entry e of the catalog, the hash of e's fields
CacheCovers(saved, e) ==
    /\ saved # Absent
    /\ MapHas(saved[1].models, e.id)
    /\ MapGet(saved[1].models, e.id).hash = calculateModelHash(e)

\* C30 (cache coverage): when a build has ended with exit code 0 over a
\* catalog with unique ids, the saved cache has an entry for the id of every
\* entry of the catalog, and its hash is the hash of that entry's hashed
\* fields; and no step removes an id from the saved cache.
C30_CacheCoverage ==
    [][/\ (BuildEnded' /\ exitCode' = 0 /\ CatalogIdsUnique(dataFile')) =>
              \A e \in EntriesIn(dataFile') : CacheCovers(cacheFile', e)
       /\ cacheFile # Absent =>
              /\ cacheFile' # Absent
              /\ MapKeys(cacheFile[1].models) \subseteq MapKeys(cacheFile'[1].models)]_vars

\* the second build has ended on a model whose hashed fields changed after
\* the first build: the saved cache has the new hash, not the old one
C30_Witness ==
    /\ BuildEnded
    /\ exitCode = 0
    /\ Len(trail) = 4
    /\ CatalogIdsUnique(dataFile)
    /\ \E e \in EntriesIn(trail[2].dataFile), f \in EntriesIn(dataFile) :
          /\ f.id = e.id
          /\ calculateModelHash(f) # calculateModelHash(e)
          /\ CacheCovers(cacheFile, f)

\* a build has ended on a catalog without the model an earlier build cached:
\* the saved cache still has the model's id
C30_RemovedModelStillCached ==
    /\ BuildEnded
    /\ dataFile # Absent
    /\ \E k \in MapKeys(cacheFile[1].models) :
          \A e \in EntriesIn(dataFile) : e.id # k

===========================================================================
